---------------------------- MODULE Spec2Model ----------------------------
(***************************************************************************)
(* A model of the code generator of aind-data-schema-models                *)
(* (src/src/aind_data_schema_models/generators).                           *)
(*                                                                         *)
(* Python strings that the code inspects character by character (class     *)
(* names, record values, resolver patterns) are sequences of one-character *)
(* strings.  Field names and dictionary keys, which the code only compares *)
(* and copies, are TLA+ strings.  An operation that can raise returns a    *)
(* record [err, val]: err = "none" on a normal return, the name of the     *)
(* Python exception otherwise ("hang" for a loop that never ends).         *)
(***************************************************************************)
EXTENDS Naturals, Sequences, FiniteSets, TLC

VARIABLES
    \* sanitize_class_name applied to a class name, then to its own result
    \* and create_enum_key_from_class_name applied to the same class name
    san_pc, san_class_name, san_once, san_twice, san_key,
    \* a MappableReferenceField: the handlers given to __init__, the fields
    \* _parsed_source_keys_handlers and _pattern, and one __call__ on a record
    mr_pc, mr_declared, mr_handlers, mr_pattern, mr_source, mr_result,
    \* one call of ModelGenerator.generate_literal_model: its arguments and
    \* what it returned or raised
    lm_pc, lm_args, lm_result,
    \* a ModelGenerator: generator holds what __init__ stored,
    \* _literal_model_blueprints is the list generate() appends to, pipeline
    \* the validators and formatters every generate() call is given, and
    \* generated what each generate() call returned or raised, oldest first
    generator, _literal_model_blueprints, pipeline, generated,
    \* a generated module: ct_module is its text and seed model, container
    \* what importing it gives (the classes, the named constants and the
    \* abbreviation lookup of the enum-like class) or raises, ct_abbreviation
    \* and ct_result the argument and the outcome of one from_abbreviation call
    ct_pc, ct_module, container, ct_abbreviation, ct_result,
    \* the GeneratorContext class and a process that uses it: cls_self is the
    \* class attribute GeneratorContext._self (empty for None, else the one
    \* instance it refers to), instances the GeneratorContext objects made so
    \* far, model_generators the ModelGenerator objects made so far, ctx the
    \* instance the running with statement has bound, run_pc where the process
    \* is, runs the number of with statements begun, disk the output folder,
    \* clock the time, outcome the last call with what it returned or raised
    cls_self, instances, model_generators, ctx, run_pc, runs, disk, clock, outcome,
    \* the module aind_data_schema_models.modalities: modalities_csv is the
    \* rows read_csv returns, Modality the class the module leaves once it is
    \* imported, md_call the last call made on it and md_result what the call
    \* returned or raised
    modalities_csv, Modality, md_call, md_result,
    \* one call of a TemplateHelper method: its arguments and what it returned
    th_pc, th_args, th_result,
    \* the list objects the name hints of the generators are: hint_lists[1] is
    \* ModelGenerator._DEFAULT_LITERAL_CLASS_NAME_HINTS, hint_lists[2] a list
    \* of the caller
    hint_lists

sanVars == <<san_pc, san_class_name, san_once, san_twice, san_key>>
mrVars == <<mr_pc, mr_declared, mr_handlers, mr_pattern, mr_source, mr_result>>
lmVars == <<lm_pc, lm_args, lm_result>>
genVars == <<generator, _literal_model_blueprints, pipeline, generated>>
ctVars == <<ct_pc, ct_module, container, ct_abbreviation, ct_result>>
ctxVars == <<cls_self, instances, model_generators, ctx, run_pc, runs, disk, clock, outcome>>
mdVars == <<modalities_csv, Modality, md_call, md_result>>
thVars == <<th_pc, th_args, th_result>>
indVars == <<hint_lists>>

-----------------------------------------------------------------------------
(* Bounds of the model *)

\* longest class name given to sanitize_class_name
MaxNameLen == 3
\* longest list of source keys given to a MappableReferenceField
MaxSourceKeys == 2
\* longest list of mappable references given to generate_literal_model
MaxReferences == 1
\* longest parsed source (number of records) of a ModelGenerator
MaxRecords == 2
\* number of generate() calls made on one ModelGenerator
MaxGenerateCalls == 2
\* number of ModelGenerator objects a process makes
MaxGenerators == 1
\* number of with statements on a GeneratorContext a process begins
MaxRuns == 2
\* longest list of registered generators of a GeneratorContext
MaxRegistrations == 2
\* the latest time of a generate() call a GeneratorContext makes
MaxTime == 2

-----------------------------------------------------------------------------
(* Characters and Python's str methods *)

\* the ASCII letters, each lower-case one at the position of its upper-case one
LowerSeq ==
    <<"a", "b", "c", "d", "e", "f", "g", "h", "i", "j", "k", "l", "m",
      "n", "o", "p", "q", "r", "s", "t", "u", "v", "w", "x", "y", "z">>
UpperSeq ==
    <<"A", "B", "C", "D", "E", "F", "G", "H", "I", "J", "K", "L", "M",
      "N", "O", "P", "Q", "R", "S", "T", "U", "V", "W", "X", "Y", "Z">>
LowerLetters == {LowerSeq[i] : i \in DOMAIN LowerSeq}
UpperLetters == {UpperSeq[i] : i \in DOMAIN UpperSeq}
Letters == LowerLetters \cup UpperLetters
Digits == {"1"}
Whitespace == {" ", "\t", "\n"}

\* helpers.py:7  _SPECIAL_CHARACTERS = r"!@#$%^&*()+=<>?,./;:'\"[]{}|\\`~"
\* (a raw string: the backslash and the double quote are both members; the
\* grave accent, which a TLA+ string cannot hold, is left out and is in no
\* alphabet of the model)
SPECIAL_CHARACTERS ==
    {"!", "@", "#", "$", "%", "^", "&", "*", "(", ")", "+", "=", "<", ">",
     "?", ",", ".", "/", ";", ":", "'", "\"", "[", "]", "{", "}", "|", "\\",
     "~"}

\* str.upper / str.lower on one character
Upper(c) ==
    IF c \in LowerLetters THEN UpperSeq[CHOOSE i \in DOMAIN LowerSeq : LowerSeq[i] = c]
    ELSE c
Lower(c) ==
    IF c \in UpperLetters THEN LowerSeq[CHOOSE i \in DOMAIN UpperSeq : UpperSeq[i] = c]
    ELSE c

\* str.isdigit on one character
IsDigit(c) == c \in Digits

\* str.capitalize: the first character upper-cased, all the others lower-cased
Capitalize(w) ==
    [i \in 1..Len(w) |-> IF i = 1 THEN Upper(w[i]) ELSE Lower(w[i])]

StrUpper(w) == [i \in 1..Len(w) |-> Upper(w[i])]

\* the result of an operation that returned v
Ok(v) == [err |-> "none", val |-> v]
\* the result of an operation that raised exception e
Raise(e) == [err |-> e, val |-> <<>>]

\* all sequences over S of length at most n
RECURSIVE SeqsUpTo(_, _)
SeqsUpTo(S, n) ==
    IF n = 0 THEN {<<>>}
    ELSE LET shorter == SeqsUpTo(S, n - 1)
         IN  shorter \cup {Append(s, c) : s \in {t \in shorter : Len(t) = n - 1}, c \in S}

\* re.split(r"[_\- ]", value): cut at every single separator, keeping empty words
SplitChars == {"_", "-", " "}

RECURSIVE SplitWords(_, _)
SplitWords(value, word) ==
    IF value = <<>> THEN <<word>>
    ELSE IF Head(value) \in SplitChars
         THEN <<word>> \o SplitWords(Tail(value), <<>>)
         ELSE SplitWords(Tail(value), Append(word, Head(value)))

RECURSIVE JoinCapitalized(_)
JoinCapitalized(words) ==
    IF words = <<>> THEN <<>>
    ELSE Capitalize(Head(words)) \o JoinCapitalized(Tail(words))

\* str.translate(_TRANSLATION_TABLE): delete every special character
Translate(s) == SelectSeq(s, LAMBDA c : c \notin SPECIAL_CHARACTERS)

\* helpers.to_pascal_case; value[0] raises IndexError on the empty string
to_pascal_case(value) ==
    IF value = <<>> THEN Raise("IndexError")
    ELSE LET suffix == IF value[1] = "_" THEN <<"_">> ELSE <<>>
         IN  Ok(suffix \o JoinCapitalized(SplitWords(value, <<>>)))

\* a variant of sanitize_class_name that returns the empty name for an empty
\* input instead of raising
sanitize_class_name_guarded(class_name) ==
    LET stripped == Translate(class_name)
    IN  IF stripped = <<>> THEN Ok(<<>>)
        ELSE to_pascal_case(IF IsDigit(stripped[1]) THEN <<"_">> \o stripped ELSE stripped)

\* helpers.sanitize_class_name; class_name[0] raises IndexError when nothing
\* is left after the special characters are removed
sanitize_class_name(class_name) ==
    LET stripped == Translate(class_name)
    IN  IF stripped = <<>> THEN Raise("IndexError")
        ELSE to_pascal_case(IF IsDigit(stripped[1]) THEN <<"_">> \o stripped ELSE stripped)

-----------------------------------------------------------------------------
(* helpers.create_enum_key_from_class_name *)

\* \w of Python's re on the characters of the model
IsWordChar(c) == c \in Letters \cup Digits \cup {"_"}

\* re.compile(r"[\W_]+").sub("_", value): every run of characters that are
\* not word characters, or are underscores, becomes one underscore
RECURSIVE SubRuns(_, _)
SubRuns(value, in_run) ==
    IF value = <<>> THEN <<>>
    ELSE IF ~IsWordChar(Head(value)) \/ Head(value) = "_"
         THEN (IF in_run THEN <<>> ELSE <<"_">>) \o SubRuns(Tail(value), TRUE)
         ELSE <<Head(value)>> \o SubRuns(Tail(value), FALSE)

\* re.compile(r"[\W_]").sub("_", value): every such character, one by one
RECURSIVE SubEach(_)
SubEach(value) ==
    IF value = <<>> THEN <<>>
    ELSE IF ~IsWordChar(Head(value)) \/ Head(value) = "_"
         THEN <<"_">> \o SubEach(Tail(value))
         ELSE <<Head(value)>> \o SubEach(Tail(value))

\* create_enum_key_from_class_name with the pattern [\W_] in place of [\W_]+
create_enum_key_per_character(value) ==
    IF value = <<>> THEN Raise("IndexError")
    ELSE LET suffix == IF value[1] = "_" \/ IsDigit(value[1]) THEN <<"_">> ELSE <<>>
         IN  Ok(suffix \o StrUpper(SubEach(value)))

\* helpers.create_enum_key_from_class_name; value[0] raises IndexError on the
\* empty string
create_enum_key_from_class_name(value) ==
    IF value = <<>> THEN Raise("IndexError")
    ELSE LET suffix == IF value[1] = "_" \/ IsDigit(value[1]) THEN <<"_">> ELSE <<>>
         IN  Ok(suffix \o StrUpper(SubRuns(value, FALSE)))

-----------------------------------------------------------------------------
(* sanitize_class_name on bounded class names *)

NameAlphabet == {"a", "B", "1", "_", "-", " ", "."}
ClassNames == SeqsUpTo(NameAlphabet, MaxNameLen)

NoResult == [err |-> "unset", val |-> <<>>]

SanIdle ==
    /\ san_pc = "idle"
    /\ san_class_name = <<>>
    /\ san_once = NoResult
    /\ san_twice = NoResult
    /\ san_key = NoResult

SanInit ==
    /\ san_pc = "start"
    /\ san_class_name \in ClassNames
    /\ san_once = NoResult
    /\ san_twice = NoResult
    /\ san_key = NoResult

\* LiteralModelBlueprint.__post_init__: sanitized = sanitize_class_name(class_name)
Sanitize ==
    /\ san_pc = "start"
    /\ san_once' = sanitize_class_name(san_class_name)
    /\ san_pc' = "once"
    /\ UNCHANGED <<san_class_name, san_twice, san_key>>

\* the sanitized name is itself used as a class name
SanitizeAgain ==
    /\ san_pc = "once"
    /\ san_once.err = "none"
    /\ san_twice' = sanitize_class_name(san_once.val)
    /\ san_pc' = "twice"
    /\ UNCHANGED <<san_class_name, san_once, san_key>>

\* generate_enum_like_class: key = create_enum_key_from_class_name(class_name),
\* the class name being the one the blueprint was made with
CreateEnumKey ==
    /\ san_pc # "idle"
    /\ san_key = NoResult
    /\ san_key' = create_enum_key_from_class_name(san_class_name)
    /\ UNCHANGED <<san_pc, san_class_name, san_once, san_twice>>

-----------------------------------------------------------------------------
(* Optional values, records (ParsedSource) *)

\* Optional[...]: None, or a value (a list, a str)
None == [none |-> TRUE, value |-> <<>>]
Some(v) == [none |-> FALSE, value |-> v]

\* every dict with keys among K and values in V
Dicts(K, V) == UNION {[D -> V] : D \in SUBSET K}

EmptyDict == [k \in {} |-> <<>>]

-----------------------------------------------------------------------------
(* MappableReferenceField *)

\* the positional placeholder "{}" of a str.format pattern
HOLE == "{}"

\* ParsedSourceKeyHandler.function_handle: None, or a pure str -> str function
ApplyHandle(function_handle, value) ==
    IF function_handle = "upper" THEN StrUpper(value) ELSE value

\* an element of the list given to __init__: a plain str, or a
\* ParsedSourceKeyHandler(field, function_handle)
StrKey(k) == [kind |-> "str", field |-> k, function_handle |-> "None"]
Handler(k, f) == [kind |-> "handler", field |-> k, function_handle |-> f]

\* MappableReferenceField._normalize_parsed_source_keys on a list: the loop
\* ends (break) right after the first plain str it converts
RECURSIVE _normalize_parsed_source_keys(_)
_normalize_parsed_source_keys(handlers) ==
    IF handlers = <<>> THEN <<>>
    ELSE LET handle == Head(handlers)
             converted == [field |-> handle.field,
                           function_handle |-> handle.function_handle]
         IN  IF handle.kind = "str"
             THEN <<converted>>
             ELSE <<converted>> \o _normalize_parsed_source_keys(Tail(handlers))

\* MappableReferenceField.parsed_source_keys
parsed_source_keys(handlers) == [i \in 1..Len(handlers) |-> handlers[i].field]

NumHoles(pattern) == Cardinality({i \in 1..Len(pattern) : pattern[i] = HOLE})

RECURSIVE Fill(_, _, _)
Fill(pattern, args, next) ==
    IF pattern = <<>> THEN <<>>
    ELSE IF Head(pattern) = HOLE
         THEN args[next] \o Fill(Tail(pattern), args, next + 1)
         ELSE <<Head(pattern)>> \o Fill(Tail(pattern), args, next)

\* str.format(*args) on a pattern of automatically numbered fields: a field
\* with no argument raises IndexError, arguments left over are ignored
Format(pattern, args) ==
    IF NumHoles(pattern) > Len(args) THEN Raise("IndexError")
    ELSE Ok(Fill(pattern, args, 1))

\* MappableReferenceField.__call__: the second loop reads parsed_source[key],
\* where key is the variable the first loop left behind, the last source key
MappableReferenceField_call(handlers, pattern, parsed_source) ==
    LET keys == parsed_source_keys(handlers)
    IN  IF \E i \in 1..Len(keys) : keys[i] \notin DOMAIN parsed_source
        THEN Raise("KeyError")
        ELSE LET key == keys[Len(keys)]
             IN  Format(pattern,
                        [i \in 1..Len(handlers) |->
                            ApplyHandle(handlers[i].function_handle,
                                        parsed_source[key])])

SourceKeys == {"name", "registry_abbreviation", "registry_identifier"}
SourceValues == {<<"a">>, <<"b", "B">>}
FunctionHandles == {"None", "upper"}
DeclaredHandlers ==
    {StrKey(k) : k \in SourceKeys}
        \cup {Handler(k, f) : k \in SourceKeys, f \in FunctionHandles}
Patterns == {<<"R">>, <<"R", ".", HOLE>>, <<HOLE, ".", HOLE>>}

MrIdle ==
    /\ mr_pc = "idle"
    /\ mr_declared = <<>>
    /\ mr_handlers = <<>>
    /\ mr_pattern = <<>>
    /\ mr_source = EmptyDict
    /\ mr_result = NoResult

\* MappableReferenceField.__init__
MrInit ==
    /\ mr_pc = "constructed"
    /\ mr_declared \in SeqsUpTo(DeclaredHandlers, MaxSourceKeys)
    /\ mr_handlers = _normalize_parsed_source_keys(mr_declared)
    /\ mr_pattern \in Patterns
    /\ mr_source = EmptyDict
    /\ mr_result = NoResult

\* MappableReferenceField.__call__(parsed_source)
MrCall ==
    /\ mr_pc = "constructed"
    /\ \E parsed_source \in Dicts(SourceKeys, SourceValues) :
          /\ mr_source' = parsed_source
          /\ mr_result' = MappableReferenceField_call(mr_handlers, mr_pattern, parsed_source)
    /\ mr_pc' = "called"
    /\ UNCHANGED <<mr_declared, mr_handlers, mr_pattern>>

-----------------------------------------------------------------------------
(* helpers.unindent *)

IsBlank(line) == \A i \in 1..Len(line) : line[i] \in Whitespace

\* text.split("\n")[0]
RECURSIVE FirstLine(_)
FirstLine(text) ==
    IF text = <<>> \/ Head(text) = "\n" THEN <<>>
    ELSE <<Head(text)>> \o FirstLine(Tail(text))

\* text.split("\n")
RECURSIVE SplitLines(_, _)
SplitLines(text, line) ==
    IF text = <<>> THEN <<line>>
    ELSE IF Head(text) = "\n"
         THEN <<line>> \o SplitLines(Tail(text), <<>>)
         ELSE SplitLines(Tail(text), Append(line, Head(text)))

\* len(first_line) - len(first_line.lstrip())
RECURSIVE LeadingWhitespace(_)
LeadingWhitespace(line) ==
    IF line = <<>> \/ Head(line) \notin Whitespace THEN 0
    ELSE 1 + LeadingWhitespace(Tail(line))

\* line[indent:]
DropChars(line, indent) ==
    IF indent >= Len(line) THEN <<>> ELSE SubSeq(line, indent + 1, Len(line))

\* "\n".join(lines)
RECURSIVE JoinLines(_)
JoinLines(lines) ==
    IF Len(lines) = 1 THEN Head(lines)
    ELSE Head(lines) \o <<"\n">> \o JoinLines(Tail(lines))

\* the while loop of unindent: drop one character at a time as long as the
\* first line is blank; text[1:] of the empty string is the empty string, so
\* on a text without any non-blank character the loop never ends
RECURSIVE DropBlankStart(_)
DropBlankStart(text) ==
    IF ~IsBlank(FirstLine(text)) THEN Ok(text)
    ELSE IF text = <<>> THEN Raise("hang")
    ELSE DropBlankStart(Tail(text))

\* helpers.unindent
unindent(text) ==
    LET start == DropBlankStart(text)
    IN  IF start.err # "none" THEN start
        ELSE LET indent == LeadingWhitespace(FirstLine(start.val))
                 lines == SplitLines(start.val, <<>>)
             IN  Ok(JoinLines([i \in 1..Len(lines) |-> DropChars(lines[i], indent)]))

-----------------------------------------------------------------------------
(* TemplateHelper: the emitted text, one item per template call *)

\* TemplateHelper._orfan_class_header
_orfan_class_header(class_name) ==
    [template |-> "class", class_name |-> class_name, parent_name |-> "None"]

\* TemplateHelper.class_header with parent_name None or a str
class_header(class_name, parent_name) ==
    IF parent_name = "None" THEN _orfan_class_header(class_name)
    ELSE [template |-> "class", class_name |-> class_name, parent_name |-> parent_name]

\* TemplateHelper.literal_field: {field_name}: Literal[{value}] = {value}
literal_field(name, value) ==
    [template |-> "field", field_name |-> name, value |-> value]

\* TemplateHelper.model_enum_entry: {key} = {instance}()
model_enum_entry(key, value) ==
    [template |-> "entry", key |-> key, instance |-> value]

\* TemplateHelper.indent(text, level): the item at the given nesting level
indent(item, level) == [level |-> level, text |-> item]

-----------------------------------------------------------------------------
(* ModelGenerator.generate_literal_model *)

\* typeof: a type (its __module__ and __name__) or a ForwardClassReference
TypeOf(module_name, class_name) ==
    [kind |-> "type", module_name |-> module_name, class_name |-> class_name]
ForwardClassReference(module_name, class_name) ==
    [kind |-> "forward", module_name |-> module_name, class_name |-> class_name]

\* seed models of generators/_base.py: name and model_fields (field name and
\* the __name__ of its annotation, in declaration order)
ModalityModel ==
    [name |-> "_ModalityModel",
     typeof |-> TypeOf("aind_data_schema_models.generators._base", "_ModalityModel"),
     model_fields |-> <<[name |-> "name", annotation |-> "str"],
                        [name |-> "abbreviation", annotation |-> "str"]>>]
HarpDeviceTypeModel ==
    [name |-> "_HarpDeviceTypeModel",
     typeof |-> TypeOf("aind_data_schema_models.generators._base", "_HarpDeviceTypeModel"),
     model_fields |-> <<[name |-> "name", annotation |-> "str"],
                        [name |-> "whoami", annotation |-> "int"]>>]

\* a MappableReferenceField after __init__
MappableReferenceField(typeof, pattern, field_name, parsed_source_keys_handlers) ==
    [typeof |-> typeof,
     field_name |-> field_name,
     pattern |-> pattern,
     handlers |-> _normalize_parsed_source_keys(parsed_source_keys_handlers)]

\* LiteralModelBlueprint: __post_init__ sanitizes the class name
LiteralModelBlueprint(class_name) ==
    LET sanitized == sanitize_class_name(class_name)
    IN  IF sanitized.err # "none" THEN sanitized
        ELSE Ok([class_name |-> class_name,
                 sanitized_class_name |-> sanitized.val,
                 code_builder |-> <<>>])

\* generate_literal_model, "Solve for the class name":
\*   while class_name is None and len(_class_name_hints) > 0:
\*       class_name = parsed_source.get(_class_name_hints.pop(0), None)
RECURSIVE solve_class_name(_, _, _)
solve_class_name(class_name, hints, parsed_source) ==
    IF ~class_name.none \/ hints = <<>> THEN class_name
    ELSE solve_class_name(
            IF Head(hints) \in DOMAIN parsed_source
            THEN Some(parsed_source[Head(hints)]) ELSE None,
            Tail(hints), parsed_source)

\* ModelGenerator._try_get_mappable_reference_field: the first reference whose
\* field_name is the field, as Some(<<reference>>), or None
RECURSIVE _try_get_mappable_reference_field(_, _)
_try_get_mappable_reference_field(field_name, mappable_references) ==
    IF mappable_references.none \/ mappable_references.value = <<>> THEN None
    ELSE IF Head(mappable_references.value).field_name = field_name
         THEN Some(<<Head(mappable_references.value)>>)
         ELSE _try_get_mappable_reference_field(
                field_name, Some(Tail(mappable_references.value)))

\* f'"{param}"'
Quoted(param) == <<"\"">> \o param \o <<"\"">>

\* a variant of the field's value in which the record's key takes priority
\* over the mappable reference
field_value_source_first(field, parsed_source, mappable_references) ==
    LET this_mappable == _try_get_mappable_reference_field(field.name, mappable_references)
    IN  IF field.name \in DOMAIN parsed_source
        THEN Ok(IF field.annotation = "str"
                THEN Quoted(parsed_source[field.name])
                ELSE parsed_source[field.name])
        ELSE IF ~this_mappable.none
        THEN LET param == MappableReferenceField_call(
                              this_mappable.value[1].handlers,
                              this_mappable.value[1].pattern, parsed_source)
             IN  IF param.err # "none" THEN param ELSE unindent(param.val)
        ELSE Raise("not generated")

\* generate_literal_model, steps 1) and 2) of "Populate the value-based
\* fields": the text of one field; "not generated" when neither step applies
field_value(field, parsed_source, mappable_references) ==
    LET this_mappable == _try_get_mappable_reference_field(field.name, mappable_references)
    IN  IF ~this_mappable.none
        THEN LET param == MappableReferenceField_call(
                              this_mappable.value[1].handlers,
                              this_mappable.value[1].pattern, parsed_source)
             IN  IF param.err # "none" THEN param ELSE unindent(param.val)
        ELSE IF field.name \in DOMAIN parsed_source
        THEN Ok(IF field.annotation = "str"
                THEN Quoted(parsed_source[field.name])
                ELSE parsed_source[field.name])
        ELSE Raise("not generated")

\* generate_literal_model, the loop over parent_model_fields that appends one
\* literal_field per generated field; step 3) raises in strict mode
RECURSIVE populate_fields(_, _, _, _, _)
populate_fields(code_builder, fields, parsed_source, mappable_references, require_all_fields_mapped) ==
    IF fields = <<>> THEN Ok(code_builder)
    ELSE LET param == field_value(Head(fields), parsed_source, mappable_references)
         IN  IF param.err = "none"
             THEN populate_fields(
                    Append(code_builder,
                           indent(literal_field(Head(fields).name, param.val), 1)),
                    Tail(fields), parsed_source, mappable_references,
                    require_all_fields_mapped)
             ELSE IF param.err # "not generated" THEN param
             ELSE IF require_all_fields_mapped THEN Raise("ValueError")
             ELSE populate_fields(code_builder, Tail(fields), parsed_source,
                                  mappable_references, require_all_fields_mapped)

\* "field_name not in mappable_fields": mappable_fields is a list of lists of
\* str (one parsed_source_keys list per reference) and field_name is a str,
\* which is equal to no list
InListOfKeyLists(field_name, mappable_fields) == FALSE

\* generate_literal_model, "if require_all_fields_mapped:": for every field,
\* raise if there are mappable references and the field is not among their
\* key lists, raise if the field is no key of the record, then check that the
\* seed model has every reference's field (the list is empty whenever this
\* point is reached: with references given the first check has raised)
strict_check(fields, parsed_source, mappable_references) ==
    IF fields = <<>> THEN Ok(<<>>)
    ELSE IF /\ ~mappable_references.none
            /\ ~InListOfKeyLists(
                   fields[1].name,
                   [i \in 1..Len(mappable_references.value) |->
                       parsed_source_keys(mappable_references.value[i].handlers)])
         THEN Raise("ValueError")
    ELSE IF \E i \in 1..Len(fields) : fields[i].name \notin DOMAIN parsed_source
         THEN Raise("ValueError")
    ELSE Ok(<<>>)

\* ModelGenerator.generate_literal_model
generate_literal_model(parsed_source, seed_model_type, mappable_references, class_name, class_name_hints, require_all_fields_mapped) ==
    LET hints == IF class_name_hints.none THEN <<>> ELSE class_name_hints.value
        solved == solve_class_name(class_name, hints, parsed_source)
        blueprint == LiteralModelBlueprint(solved.value)
        strict == IF require_all_fields_mapped
                  THEN strict_check(seed_model_type.model_fields, parsed_source,
                                    mappable_references)
                  ELSE Ok(<<>>)
        code == populate_fields(
                    <<indent(class_header(blueprint.val.sanitized_class_name,
                                          seed_model_type.name), 0)>>,
                    seed_model_type.model_fields, parsed_source,
                    mappable_references, require_all_fields_mapped)
    IN  IF solved.none THEN Raise("ValueError")
        ELSE IF blueprint.err # "none" THEN blueprint
        ELSE IF strict.err # "none" THEN strict
        ELSE IF code.err # "none" THEN code
        ELSE Ok([blueprint.val EXCEPT !.code_builder = code.val])

-----------------------------------------------------------------------------
(* ModelGenerator.generate *)

\* TemplateHelper.type_all_from_subclasses
type_all_from_subclasses(parent_name) ==
    [template |-> "ALL", parent_name |-> parent_name]

\* TemplateHelper.type_one_of
type_one_of(parent_name, discriminator) ==
    [template |-> "ONE_OF", parent_name |-> parent_name, discriminator |-> discriminator]

\* TemplateHelper.abbreviation_map
abbreviation_map == [template |-> "abbreviation_map"]

\* TemplateHelper.import_statement
import_statement(module_name, class_name) ==
    [template |-> "import", module_name |-> module_name, class_name |-> class_name]

\* TemplateHelper.import_statements: pydantic and typing
import_statements ==
    <<import_statement("pydantic", "Field, RootModel"),
      import_statement("typing", "Union, Annotated, Literal")>>

\* TemplateHelper.file_header
file_header(source_filename, dt) ==
    [template |-> "header", source_filename |-> source_filename, dt |-> dt]

\* ModelGenerator.generate_enum_like_class, the loop over the blueprints
RECURSIVE enum_entries(_)
enum_entries(literal_model_blueprints) ==
    IF literal_model_blueprints = <<>> THEN Ok(<<>>)
    ELSE LET class_blueprint == Head(literal_model_blueprints)
             key == create_enum_key_from_class_name(class_blueprint.class_name)
             rest == enum_entries(Tail(literal_model_blueprints))
         IN  IF key.err # "none" THEN key
             ELSE IF rest.err # "none" THEN rest
             ELSE Ok(<<indent(model_enum_entry(key.val,
                                               class_blueprint.sanitized_class_name), 1)>>
                     \o rest.val)

\* ModelGenerator.generate_enum_like_class
generate_enum_like_class(class_name, discriminator, seed_model_type, literal_model_blueprints, render_abbreviation_map) ==
    LET entries == enum_entries(literal_model_blueprints)
    IN  IF entries.err # "none" THEN entries
        ELSE Ok(<<indent(class_header(class_name, "None"), 0)>>
                \o entries.val
                \o <<indent(type_all_from_subclasses(seed_model_type.name), 1),
                     indent(type_one_of(seed_model_type.name, discriminator), 1)>>
                \o (IF render_abbreviation_map
                    THEN <<indent(abbreviation_map, 1)>> ELSE <<>>))

\* ModelGenerator.solve_import: nothing for a builtin, else one import
solve_import(typeof) ==
    IF typeof.module_name = "builtins" THEN <<>>
    ELSE <<import_statement(typeof.module_name, typeof.class_name)>>

\* ModelGenerator._generate_mappable_references: set() of the typeof values
\* raises TypeError on a ForwardClassReference, a dataclass with __eq__ and
\* no __hash__; otherwise one import per distinct type (the order of a set of
\* types is not fixed by the language: the text keeps them as a set)
_generate_mappable_references(mappable_references) ==
    IF mappable_references.none THEN Ok({})
    ELSE LET refs == {mappable_references.value[i].typeof :
                         i \in 1..Len(mappable_references.value)}
         IN  IF \E ref \in refs : ref.kind = "forward" THEN Raise("TypeError")
             ELSE Ok({import_statement(ref.module_name, ref.class_name) :
                         ref \in {r \in refs : r.module_name # "builtins"}})

\* the loop of generate() with a record that raises left out of the list
RECURSIVE append_blueprints_skipping(_, _, _)
append_blueprints_skipping(blueprints, parsed_source, gen) ==
    IF parsed_source = <<>> THEN [err |-> "none", blueprints |-> blueprints]
    ELSE LET class_blueprint ==
                 generate_literal_model(Head(parsed_source), gen.seed_model_type,
                                        gen.mappable_references, None,
                                        Some(gen.literal_class_name_hints), FALSE)
         IN  IF class_blueprint.err # "none"
             THEN append_blueprints_skipping(blueprints, Tail(parsed_source), gen)
             ELSE append_blueprints_skipping(Append(blueprints, class_blueprint.val),
                                             Tail(parsed_source), gen)

\* generate(), the loop over self._parsed_source: every blueprint is appended
\* to self._literal_model_blueprints as soon as it is made, so what was
\* appended before a record raises stays in the list
RECURSIVE append_blueprints(_, _, _)
append_blueprints(blueprints, parsed_source, gen) ==
    IF parsed_source = <<>> THEN [err |-> "none", blueprints |-> blueprints]
    ELSE LET class_blueprint ==
                 generate_literal_model(Head(parsed_source), gen.seed_model_type,
                                        gen.mappable_references, None,
                                        Some(gen.literal_class_name_hints), FALSE)
         IN  IF class_blueprint.err # "none"
             THEN [err |-> class_blueprint.err, blueprints |-> blueprints]
             ELSE append_blueprints(Append(blueprints, class_blueprint.val),
                                    Tail(parsed_source), gen)

\* the text generate() assembles from the blueprints now in the list
generated_code(gen, blueprints, dt) ==
    LET enum_like_class ==
            generate_enum_like_class(gen.enum_like_class_name, gen.discriminator,
                                     gen.seed_model_type, blueprints,
                                     gen.render_abbreviation_map)
        reference_imports == _generate_mappable_references(gen.mappable_references)
    IN  IF enum_like_class.err # "none" THEN enum_like_class
        ELSE IF reference_imports.err # "none" THEN reference_imports
        ELSE Ok([file_header |-> file_header(gen.data_source_identifier, dt),
                 imports |-> import_statements,
                 reference_imports |-> reference_imports.val,
                 seed_import |-> solve_import(gen.seed_model_type.typeof),
                 literal_models |->
                     [i \in 1..Len(blueprints) |-> blueprints[i].code_builder],
                 enum_like_class |-> enum_like_class.val,
                 formatted_by |-> <<>>])

-----------------------------------------------------------------------------
(* Validators and formatters *)

IsIdentifier(s) ==
    /\ s # <<>>
    /\ s[1] \in Letters \cup {"_"}
    /\ \A i \in 1..Len(s) : IsWordChar(s[i])

\* str.strip(" ")
RECURSIVE StripSpaces(_)
StripSpaces(s) ==
    IF s = <<>> THEN s
    ELSE IF Head(s) = " " THEN StripSpaces(Tail(s))
    ELSE IF s[Len(s)] = " " THEN StripSpaces(SubSeq(s, 1, Len(s) - 1))
    ELSE s

\* s.split(".")
RECURSIVE SplitDots(_, _)
SplitDots(s, part) ==
    IF s = <<>> THEN <<part>>
    ELSE IF Head(s) = "."
         THEN <<part>> \o SplitDots(Tail(s), <<>>)
         ELSE SplitDots(Tail(s), Append(part, Head(s)))

\* the expressions of Python's grammar that the texts of the model can spell:
\* a double-quoted string on one line, a decimal integer, a dotted name
IsExpression(s) ==
    LET e == StripSpaces(s)
        parts == SplitDots(e, <<>>)
    IN  \/ /\ Len(e) >= 2
           /\ e[1] = "\"" /\ e[Len(e)] = "\""
           /\ \A i \in 2..(Len(e) - 1) : e[i] \notin {"\"", "\\", "\n"}
        \/ /\ e # <<>>
           /\ \A i \in 1..Len(e) : IsDigit(e[i])
        \/ \A i \in 1..Len(parts) : IsIdentifier(StripSpaces(parts[i]))

\* whether one emitted item is a statement of Python's grammar (the name of
\* the enum-like class, the one class without a parent, is an identifier:
\* _validate_class_name has checked it in __init__)
IsValidItem(item) ==
    CASE item.text.template = "class" ->
            item.text.parent_name = "None" \/ IsIdentifier(item.text.class_name)
      [] item.text.template = "field" -> IsExpression(item.text.value)
      [] item.text.template = "entry" ->
            IsIdentifier(item.text.key) /\ IsIdentifier(item.text.instance)
      [] OTHER -> TRUE

\* AstValidator.validate: ast.parse(text) raises SyntaxError or not
AstValidator_validate(text) ==
    /\ \A i \in 1..Len(text.literal_models) :
          \A j \in 1..Len(text.literal_models[i]) : IsValidItem(text.literal_models[i][j])
    /\ \A i \in 1..Len(text.enum_like_class) : IsValidItem(text.enum_like_class[i])

\* CodeValidator.validate, as (is_valid, error): AstValidator, or a subclass
\* written by the caller ("CodeValidator") that rejects a text and returns
\* no exception with its verdict
CodeValidator_validate(validator, text) ==
    IF validator = "AstValidator"
    THEN [is_valid |-> AstValidator_validate(text),
          error |-> IF AstValidator_validate(text) THEN "None" ELSE "SyntaxError"]
    ELSE [is_valid |-> FALSE, error |-> "None"]

\* the validators of generate() with every verdict taken as valid
run_validators_accepting(code_validators, text) == Ok(text)

\* generate(), "for validator in code_validators": raise error if error
\* else ValueError("Generated code is not valid"), at the first validator
\* that rejects
RECURSIVE run_validators(_, _)
run_validators_next(verdict, code_validators, text) ==
    IF verdict.is_valid THEN run_validators(Tail(code_validators), text)
    ELSE IF verdict.error # "None" THEN Raise(verdict.error)
    ELSE Raise("ValueError")

run_validators(code_validators, text) ==
    IF code_validators = <<>> THEN Ok(text)
    ELSE run_validators_next(CodeValidator_validate(Head(code_validators), text),
                             code_validators, text)

\* CodeFormatter.format: a text transform that changes the layout only and
\* leaves a text it has already formatted as it is; formatted_by is the
\* formatters that made the layout of a text, the first applied first
CodeFormatter_format(formatter, text) ==
    IF \E i \in 1..Len(text.formatted_by) : text.formatted_by[i] = formatter
    THEN text
    ELSE [text EXCEPT !.formatted_by = Append(@, formatter)]

\* the formatters applied from the last of the list to the first
RECURSIVE run_formatters_backwards(_, _)
run_formatters_backwards(code_formatters, text) ==
    IF code_formatters = <<>> THEN text
    ELSE run_formatters_backwards(
            SubSeq(code_formatters, 1, Len(code_formatters) - 1),
            CodeFormatter_format(code_formatters[Len(code_formatters)], text))

\* generate(), "for formatter in code_formatters"
RECURSIVE run_formatters(_, _)
run_formatters(code_formatters, text) ==
    IF code_formatters = <<>> THEN text
    ELSE run_formatters(Tail(code_formatters),
                        CodeFormatter_format(Head(code_formatters), text))

\* generate(), "for formatter in code_formatters" and the return, once every
\* validator has accepted the text
generate_formatted(validated, code_formatters) ==
    IF validated.err # "none" THEN validated
    ELSE Ok(run_formatters(code_formatters, validated.val))

\* generate(), "for validator in code_validators" onwards, once the text is
\* assembled
generate_validated(code, code_validators, code_formatters) ==
    IF code.err # "none" THEN code
    ELSE generate_formatted(run_validators(code_validators, code.val), code_formatters)

\* generate() after the loop over the records: the list keeps what the loop
\* appended, whether or not the call then raises
generate_from_blueprints(appended, gen, code_validators, code_formatters, dt) ==
    [blueprints |-> appended.blueprints,
     result |->
        IF appended.err # "none" THEN Raise(appended.err)
        ELSE generate_validated(generated_code(gen, appended.blueprints, dt),
                                code_validators, code_formatters)]

\* ModelGenerator.generate: the blueprint list after the call and the
\* returned text, or the exception
generate(gen, blueprints_before, code_validators, code_formatters, dt) ==
    generate_from_blueprints(append_blueprints(blueprints_before, gen.parsed_source, gen),
                             gen, code_validators, code_formatters, dt)

-----------------------------------------------------------------------------
(* generate_literal_model on bounded arguments *)

\* the arguments generate_literal_model is called with
LiteralKeys == {"name", "abbreviation", "whoami", "code"}
LiteralValues == {<<>>, <<"a">>, <<" ", "b">>}
SeedModels == {ModalityModel, HarpDeviceTypeModel}
References ==
    {MappableReferenceField(TypeOf("builtins", "int"), <<HOLE>>, "whoami",
                            <<StrKey("whoami")>>),
     MappableReferenceField(ForwardClassReference("registries", "_Registry"),
                            <<"R", ".", HOLE>>, "abbreviation", <<StrKey("code")>>),
     MappableReferenceField(TypeOf("builtins", "str"), <<"\"", HOLE, "\"">>, "name",
                            <<StrKey("name")>>)}
\* ModelGenerator._DEFAULT_LITERAL_CLASS_NAME_HINTS and other orders
DEFAULT_LITERAL_CLASS_NAME_HINTS == <<"abbreviation", "name">>
ClassNameHints ==
    {None, Some(DEFAULT_LITERAL_CLASS_NAME_HINTS), Some(<<"name", "abbreviation">>),
     Some(<<"name">>), Some(<<"code", "name">>)}

NoArgs ==
    [parsed_source |-> EmptyDict, seed_model_type |-> ModalityModel,
     mappable_references |-> None, class_name |-> None,
     class_name_hints |-> None, require_all_fields_mapped |-> FALSE]

LmIdle ==
    /\ lm_pc = "idle"
    /\ lm_args = NoArgs
    /\ lm_result = NoResult

LmInit ==
    /\ lm_pc = "start"
    /\ lm_args = NoArgs
    /\ lm_result = NoResult

\* a call of the class method ModelGenerator.generate_literal_model
GenerateLiteralModel ==
    /\ lm_pc = "start"
    /\ \E parsed_source \in Dicts(LiteralKeys, LiteralValues),
          seed_model_type \in SeedModels,
          mappable_references \in
              {None} \cup {Some(l) : l \in SeqsUpTo(References, MaxReferences)},
          class_name \in {None, Some(<<"a">>)},
          class_name_hints \in ClassNameHints,
          require_all_fields_mapped \in BOOLEAN :
          /\ lm_args' =
                [parsed_source |-> parsed_source,
                 seed_model_type |-> seed_model_type,
                 mappable_references |-> mappable_references,
                 class_name |-> class_name,
                 class_name_hints |-> class_name_hints,
                 require_all_fields_mapped |-> require_all_fields_mapped]
          /\ lm_result' =
                generate_literal_model(parsed_source, seed_model_type,
                                       mappable_references, class_name,
                                       class_name_hints, require_all_fields_mapped)
    /\ lm_pc' = "returned"

-----------------------------------------------------------------------------
(* A ModelGenerator and its generate() calls *)

\* the records a parser returns: complete rows, rows whose names sanitize to
\* the same identifier, a row without abbreviation, a row without name, an
\* empty row, and a row whose class name is no identifier
GeneratorRecords ==
    {[name |-> <<"a">>, abbreviation |-> <<"b">>],
     [name |-> <<"a">>, abbreviation |-> <<"b", "-">>],
     [name |-> <<"a">>, abbreviation |-> <<"b", ".">>],
     [name |-> <<"a">>],
     [abbreviation |-> <<"b">>],
     EmptyDict,
     [name |-> <<"a">>, abbreviation |-> <<"-", "1">>]}
GeneratorReferences ==
    {None,
     Some(<<MappableReferenceField(TypeOf("builtins", "str"), <<"\"", HOLE, "\"">>,
                                   "abbreviation", <<StrKey("name")>>)>>),
     Some(<<MappableReferenceField(ForwardClassReference("registries", "_Registry"),
                                   <<"R", ".", HOLE>>, "abbreviation",
                                   <<StrKey("abbreviation")>>)>>)}
\* the two ways the scripts build a GeneratorContext: generate.py with no
\* validator and no formatter, _generators/_generate.py with all of them
Pipelines ==
    {[code_validators |-> <<>>, code_formatters |-> <<>>],
     [code_validators |-> <<"AstValidator">>,
      code_formatters |-> <<"BlackFormatter", "ISortFormatter">>]}
\* datetime.datetime.now() at the calls
Timestamps == {"t1", "t2"}

NoGenerator ==
    [enum_like_class_name |-> "", seed_model_type |-> ModalityModel,
     data_source_identifier |-> "", discriminator |-> "",
     render_abbreviation_map |-> FALSE, literal_class_name_hints |-> <<>>,
     mappable_references |-> None, parsed_source |-> <<>>]

GenIdle ==
    /\ generator = NoGenerator
    /\ _literal_model_blueprints = <<>>
    /\ pipeline = [code_validators |-> <<>>, code_formatters |-> <<>>]
    /\ generated = <<>>

\* ModelGenerator.__init__ (with the default hints and discriminator), the
\* parser having returned parsed_source
GenInit ==
    /\ \E parsed_source \in SeqsUpTo(GeneratorRecords, MaxRecords),
          mappable_references \in GeneratorReferences,
          render_abbreviation_map \in BOOLEAN :
          generator =
             [enum_like_class_name |-> "_Modality",
              seed_model_type |-> ModalityModel,
              data_source_identifier |-> "modalities.csv",
              discriminator |-> "name",
              render_abbreviation_map |-> render_abbreviation_map,
              literal_class_name_hints |-> DEFAULT_LITERAL_CLASS_NAME_HINTS,
              mappable_references |-> mappable_references,
              parsed_source |-> parsed_source]
    /\ _literal_model_blueprints = <<>>
    /\ pipeline \in Pipelines
    /\ generated = <<>>

\* a call of ModelGenerator.generate
Generate ==
    /\ Len(generated) < MaxGenerateCalls
    /\ \E dt \in Timestamps :
          \E call \in {generate(generator, _literal_model_blueprints,
                                pipeline.code_validators, pipeline.code_formatters, dt)} :
             /\ _literal_model_blueprints' = call.blueprints
             /\ generated' = Append(generated, call.result)
    /\ UNCHANGED <<generator, pipeline>>

-----------------------------------------------------------------------------
(* A generated module, imported: the enum-like class and from_abbreviation *)

\* the value Python gives an emitted literal: the characters between the
\* quotes of a string literal, the expression as it stands otherwise
literal_value(value) ==
    IF Len(value) >= 2 /\ value[1] = "\"" /\ value[Len(value)] = "\""
    THEN SubSeq(value, 2, Len(value) - 1)
    ELSE value

\* a class statement of the module: the class name and the default of every
\* field the class body assigns ({field_name}: Literal[{value}] = {value})
class_statement(code_builder) ==
    LET assigned == {j \in 2..Len(code_builder) : code_builder[j].text.template = "field"}
        names == {code_builder[j].text.field_name : j \in assigned}
    IN  [class_name |-> code_builder[1].text.class_name,
         defaults |->
            [f \in names |->
                literal_value(
                    code_builder[CHOOSE j \in assigned :
                                    /\ code_builder[j].text.field_name = f
                                    /\ \A k \in assigned :
                                          code_builder[k].text.field_name = f => k <= j
                                ].text.value)]]

\* m(): pydantic raises ValidationError when a required field of the seed
\* model (Field(...)) has no default in the subclass
CanInstantiate(cls, seed_model_type) ==
    \A i \in 1..Len(seed_model_type.model_fields) :
        seed_model_type.model_fields[i].name \in DOMAIN cls.defaults

\* the abbreviation lookup of _generated/modalities.py and platforms.py:
\* from_abbreviation returns cls.abbreviation_map[abbreviation]
generated_abbreviation_map == [template |-> "abbreviation_map_subscript"]

\* executing the module: the class statements in order, then the body of the
\* enum-like class: the constants ({key} = {instance}(), a later assignment
\* to a key replacing an earlier one), ALL (the subclasses of the seed model
\* in definition order) and abbreviation_map = {m().abbreviation: m() for m
\* in ALL}, a later class replacing an earlier one with the same abbreviation.
\* An instance is the index of its class: two instances are equal when they
\* are of the same class.
import_module(text, seed_model_type) ==
    LET classes == [i \in 1..Len(text.literal_models) |->
                       class_statement(text.literal_models[i])]
        ALL == 1..Len(classes)
        body == text.enum_like_class
        entries == {i \in 1..Len(body) : body[i].text.template = "entry"}
        lookups == {body[i].text.template : i \in 1..Len(body)}
                      \cap {"abbreviation_map", "abbreviation_map_subscript"}
        ClassNamed(name) ==
            CHOOSE c \in ALL : /\ classes[c].class_name = name
                               /\ \A d \in ALL : classes[d].class_name = name => d <= c
        keys == {body[i].text.key : i \in entries}
        abbreviations == {classes[c].defaults["abbreviation"] : c \in ALL}
        instantiated == {ClassNamed(body[i].text.instance) : i \in entries}
                           \cup (IF lookups # {} THEN ALL ELSE {})
    IN  IF ~AstValidator_validate(text) THEN Raise("SyntaxError")
        ELSE IF \E c \in instantiated : ~CanInstantiate(classes[c], seed_model_type)
        THEN Raise("ValidationError")
        ELSE IF lookups # {} /\ \E c \in ALL : "abbreviation" \notin DOMAIN classes[c].defaults
        THEN Raise("AttributeError")
        ELSE Ok([classes |-> classes,
                 constants |->
                    [k \in keys |->
                        ClassNamed(body[CHOOSE i \in entries :
                                          /\ body[i].text.key = k
                                          /\ \A j \in entries :
                                                body[j].text.key = k => j <= i
                                       ].text.instance)],
                 lookup |-> lookups,
                 abbreviation_map |->
                    IF lookups = {} THEN <<>>
                    ELSE [a \in abbreviations |->
                            CHOOSE c \in ALL :
                               /\ classes[c].defaults["abbreviation"] = a
                               /\ \A d \in ALL :
                                     classes[d].defaults["abbreviation"] = a => d <= c]])

\* from_abbreviation of the enum-like class: dict.get(abbreviation, None) in
\* the template of TemplateHelper.abbreviation_map, a subscript in
\* _generated/modalities.py
from_abbreviation(cls, abbreviation) ==
    IF abbreviation \in DOMAIN cls.abbreviation_map
    THEN Ok(Some(cls.abbreviation_map[abbreviation]))
    ELSE IF "abbreviation_map_subscript" \in cls.lookup THEN Raise("KeyError")
    ELSE Ok(None)

\* _generated/modalities.py as it is checked in, two of its classes kept
generated_modalities ==
    [file_header |-> file_header("modalities.csv", "t0"),
     imports |-> import_statements,
     reference_imports |-> {},
     seed_import |-> solve_import(ModalityModel.typeof),
     literal_models |->
      <<
       <<indent(class_header(<<"E", "m", "g">>, "_ModalityModel"), 0),
         indent(literal_field("name", <<"\"", "E", "l", "e", "c", "t", "r", "o", "m", "y", "o", "g", "r", "a", "p", "h", "y", "\"">>), 1),
         indent(literal_field("abbreviation", <<"\"", "E", "M", "G", "\"">>), 1)>>,
       <<indent(class_header(<<"F", "i", "b">>, "_ModalityModel"), 0),
         indent(literal_field("name", <<"\"", "F", "i", "b", "e", "r", " ", "p", "h", "o", "t", "o", "m", "e", "t", "r", "y", "\"">>), 1),
         indent(literal_field("abbreviation", <<"\"", "f", "i", "b", "\"">>), 1)>>
      >>,
     enum_like_class |->
       <<indent(class_header("_Modality", "None"), 0),
         indent(model_enum_entry(<<"E", "M", "G">>, <<"E", "m", "g">>), 1),
         indent(model_enum_entry(<<"F", "I", "B">>, <<"F", "i", "b">>), 1),
         indent(type_all_from_subclasses("_ModalityModel"), 1),
         indent(type_one_of("_ModalityModel", "name"), 1),
         indent(generated_abbreviation_map, 1)>>,
     formatted_by |-> <<"BlackFormatter", "ISortFormatter">>]

\* the records the generators of the modules are given
ContainerRecords ==
    {[name |-> <<"a">>, abbreviation |-> <<"b">>],
     [name |-> <<"c">>, abbreviation |-> <<"b">>],
     [name |-> <<"c">>, abbreviation |-> <<"d">>],
     [name |-> <<"e">>, abbreviation |-> <<>>],
     [name |-> <<"a">>, abbreviation |-> <<"a", "-", "b">>],
     [name |-> <<"c">>, abbreviation |-> <<"a", ".", "b">>],
     [name |-> <<"a">>]}
\* the hints of the generators: the default ones, and the name only
ContainerHints == {DEFAULT_LITERAL_CLASS_NAME_HINTS, <<"name">>}
\* the arguments from_abbreviation is called with
Abbreviations == {<<>>, <<"b">>, <<"d">>, <<"z">>, <<"a", "-", "b">>, <<"E", "M", "G">>}

\* whether the classes of a text have different names (a class statement
\* with the name of an earlier one rebinds the name; whether the earlier
\* class is still among the subclasses of the seed model is then up to the
\* garbage collector, so such modules are left out)
DistinctClassNames(text) ==
    \A i \in 1..Len(text.literal_models) : \A j \in 1..Len(text.literal_models) :
        i # j => text.literal_models[i][1].text.class_name
                    # text.literal_models[j][1].text.class_name

\* the texts generate() returns for the generators of the modules
GeneratedTexts ==
    LET calls == {generate([enum_like_class_name |-> "_Modality",
                            seed_model_type |-> ModalityModel,
                            data_source_identifier |-> "modalities.csv",
                            discriminator |-> "name",
                            render_abbreviation_map |-> render,
                            literal_class_name_hints |-> hints,
                            mappable_references |-> None,
                            parsed_source |-> parsed_source],
                           <<>>, <<>>, <<>>, "t1").result :
                     parsed_source \in SeqsUpTo(ContainerRecords, MaxRecords),
                     hints \in ContainerHints,
                     render \in BOOLEAN}
    IN  {call.val : call \in {c \in calls : c.err = "none"}}

NoModule == [text |-> <<>>, seed_model_type |-> ModalityModel]

CtIdle ==
    /\ ct_pc = "idle"
    /\ ct_module = NoModule
    /\ container = NoResult
    /\ ct_abbreviation = <<>>
    /\ ct_result = NoResult

\* a module on disk: one that generate() returned, or the checked-in one
CtInit ==
    /\ ct_pc = "written"
    /\ \E text \in {t \in GeneratedTexts : DistinctClassNames(t)} \cup {generated_modalities} :
          ct_module = [text |-> text, seed_model_type |-> ModalityModel]
    /\ container = NoResult
    /\ ct_abbreviation = <<>>
    /\ ct_result = NoResult

\* import of the module
ImportModule ==
    /\ ct_pc = "written"
    /\ container' = import_module(ct_module.text, ct_module.seed_model_type)
    /\ ct_pc' = "imported"
    /\ UNCHANGED <<ct_module, ct_abbreviation, ct_result>>

\* one call of from_abbreviation on the enum-like class of the module
FromAbbreviation ==
    /\ ct_pc = "imported"
    /\ container.err = "none"
    /\ container.val.lookup # {}
    /\ \E abbreviation \in Abbreviations :
          /\ ct_abbreviation' = abbreviation
          /\ ct_result' = from_abbreviation(container.val, abbreviation)
    /\ ct_pc' = "called"
    /\ UNCHANGED <<ct_module, container>>

-----------------------------------------------------------------------------
(* ModelGenerator.__init__ and GeneratorContext *)

StrLower(w) == [i \in 1..Len(w) |-> Lower(w[i])]

\* helpers.is_pascal_case: value[1] raises IndexError on "_"
is_pascal_case(value) ==
    IF IsIdentifier(value)
    THEN IF value[1] = "_"
         THEN IF Len(value) < 2 THEN Raise("IndexError")
              ELSE Ok(value[2] \in UpperLetters)
         ELSE Ok(value[1] \in UpperLetters)
    ELSE Ok(FALSE)

\* ModelGenerator._validate_class_name
_validate_class_name(class_name) ==
    LET pascal == is_pascal_case(class_name)
    IN  IF pascal.err # "none" THEN pascal
        ELSE IF ~pascal.val THEN Raise("ValueError")
        ELSE Ok(<<>>)

\* ModelGenerator._validate without the check of the field names
_validate_class_name_only(gen) == _validate_class_name(gen.enum_like_class_name)

\* ModelGenerator._validate (every seed model of the model is a subclass of
\* pydantic.BaseModel): the class name, then len(fields_name) !=
\* len(set(fields_name))
_validate(gen) ==
    LET named == _validate_class_name(gen.enum_like_class_name)
        refs == gen.mappable_references.value
    IN  IF named.err # "none" THEN named
        ELSE IF /\ ~gen.mappable_references.none
                /\ Len(refs) # Cardinality({refs[i].field_name : i \in 1..Len(refs)})
        THEN Raise("ValueError")
        ELSE Ok(<<>>)

\* ModelGenerator.__init__: the fields, self.parse() (parsed is what the
\* parser of the call returns or raises), an empty blueprint list, then
\* self._validate(); the object exists for the caller only when nothing was
\* raised
ModelGenerator_init(class_name, parsed, mappable_references) ==
    LET gen == [enum_like_class_name |-> class_name,
                seed_model_type |-> ModalityModel,
                data_source_identifier |-> "modalities.csv",
                discriminator |-> "name",
                render_abbreviation_map |-> TRUE,
                literal_class_name_hints |-> DEFAULT_LITERAL_CLASS_NAME_HINTS,
                mappable_references |-> mappable_references,
                parsed_source |-> parsed.val]
        valid == _validate(gen)
    IN  IF parsed.err # "none" THEN parsed
        ELSE IF valid.err # "none" THEN valid
        ELSE Ok([gen |-> gen, _literal_model_blueprints |-> <<>>])

\* GeneratorContext.__new__: the instance in the class attribute, or a new
\* one stored there; object.__new__ raises TypeError when it is given the
\* arguments of the constructor
GeneratorContext_new(slot, heap, has_arguments) ==
    IF slot = {}
    THEN IF has_arguments THEN Raise("TypeError") ELSE Ok(Len(heap) + 1)
    ELSE Ok(CHOOSE i \in slot : TRUE)

\* the object super().__new__(cls) returns: no attribute of its own, _self
\* read on it gives the class attribute
NewInstance ==
    [_generators |-> <<>>, code_validators |-> <<>>, code_formatters |-> <<>>,
     _self |-> "class attribute"]

\* GeneratorContext.__init__ on the instance __new__ returned
GeneratorContext_init(self, code_validators, code_formatters) ==
    [self EXCEPT !._generators = <<>>,
                 !.code_validators = code_validators,
                 !.code_formatters = code_formatters]

\* __exit__ that leaves the registrations
GeneratorContext_exit_keeping(self, slot) ==
    [instance |-> [self EXCEPT !._self = "None"], cls_self |-> slot]

\* GeneratorContext.__exit__: self._generators = [], self._self = None (an
\* attribute of the instance; the class attribute is not assigned)
GeneratorContext_exit(self, slot) ==
    [instance |-> [self EXCEPT !._generators = <<>>, !._self = "None"],
     cls_self |-> slot]

\* GeneratorContext.add_generator
add_generator(self, model_generator, file_name) ==
    [self EXCEPT !._generators =
        Append(@, [model_generator |-> model_generator, target_path |-> file_name])]

\* GeneratorContext.remove_generator (ModelGenerator has no __eq__: != is
\* identity)
remove_generator(self, model_generator) ==
    [self EXCEPT !._generators =
        SelectSeq(@, LAMBDA g : g.model_generator # model_generator)]

\* the ModelGenerator objects with the blueprint list of one of them replaced
Stored(heap, model_generator, blueprints) ==
    [heap EXCEPT ![model_generator]._literal_model_blueprints = blueprints]

\* GeneratorContext.generate_all: the list comprehension calls generate() on
\* every registered entry in order, each at a later time than the one
\* before; an exception ends it
RECURSIVE generate_all(_, _, _, _, _)
RECURSIVE generate_all_next(_, _, _, _, _, _)
generate_all_rest(call, rest) ==
    [err |-> rest.err,
     val |-> IF rest.err = "none" THEN <<call.result.val>> \o rest.val ELSE <<>>,
     heap |-> rest.heap,
     now |-> rest.now]

generate_all_next(call, generators, heap, code_validators, code_formatters, now) ==
    IF call.result.err # "none"
    THEN [err |-> call.result.err, val |-> <<>>,
          heap |-> Stored(heap, Head(generators).model_generator, call.blueprints),
          now |-> now]
    ELSE generate_all_rest(
            call,
            generate_all(Tail(generators),
                         Stored(heap, Head(generators).model_generator, call.blueprints),
                         code_validators, code_formatters, now))

generate_all(generators, heap, code_validators, code_formatters, now) ==
    IF generators = <<>>
    THEN [err |-> "none", val |-> <<>>, heap |-> heap, now |-> now]
    ELSE generate_all_next(
            generate(heap[Head(generators).model_generator].gen,
                     heap[Head(generators).model_generator]._literal_model_blueprints,
                     code_validators, code_formatters, now + 1),
            generators, heap, code_validators, code_formatters, now + 1)

\* a file system with the file at path holding content
Put(files, path, content) ==
    [x \in DOMAIN files \cup {path} |-> IF x = path THEN content ELSE files[x]]

\* ModelGenerator.write once open(output_path, "w") has made the file or
\* emptied it: f.write(self.generate(...)), nothing being written when
\* generate() raises
write_opened(call, output_path, folder) ==
    [err |-> call.result.err,
     blueprints |-> call.blueprints,
     disk |-> [folder EXCEPT !.files =
                  Put(@, output_path,
                      IF call.result.err = "none" THEN <<call.result.val>> ELSE <<>>)]]

\* ModelGenerator.write: open() raises FileNotFoundError when the folder of
\* output_path does not exist
write(self, output_path, folder, code_validators, code_formatters, now) ==
    IF ~folder.dir
    THEN [err |-> "FileNotFoundError",
          blueprints |-> self._literal_model_blueprints, disk |-> folder]
    ELSE write_opened(generate(self.gen, self._literal_model_blueprints,
                               code_validators, code_formatters, now),
                      output_path, folder)

\* write_all: entry.target_path, or the lower-cased class name + ".py"
target_path(entry, heap) ==
    IF entry.target_path # <<>> THEN entry.target_path
    ELSE StrLower(heap[entry.model_generator].gen.enum_like_class_name)
            \o <<".", "p", "y">>

\* the loop of write_all with every exception of write() swallowed
RECURSIVE write_each_swallowing(_, _, _, _, _, _)
write_each_swallowing_next(written, generators, heap, code_validators, code_formatters, now) ==
    write_each_swallowing(Tail(generators),
                          Stored(heap, Head(generators).model_generator, written.blueprints),
                          written.disk, code_validators, code_formatters, now)

write_each_swallowing(generators, heap, folder, code_validators, code_formatters, now) ==
    IF generators = <<>>
    THEN [err |-> "none", heap |-> heap, disk |-> folder, now |-> now]
    ELSE write_each_swallowing_next(
            write(heap[Head(generators).model_generator],
                  target_path(Head(generators), heap), folder,
                  code_validators, code_formatters, now + 1),
            generators, heap, code_validators, code_formatters, now + 1)

\* write_all, the loop over self._generators
RECURSIVE write_each(_, _, _, _, _, _)
write_each_next(written, generators, heap, code_validators, code_formatters, now) ==
    IF written.err # "none"
    THEN [err |-> written.err,
          heap |-> Stored(heap, Head(generators).model_generator, written.blueprints),
          disk |-> written.disk, now |-> now]
    ELSE write_each(Tail(generators),
                    Stored(heap, Head(generators).model_generator, written.blueprints),
                    written.disk, code_validators, code_formatters, now)

write_each(generators, heap, folder, code_validators, code_formatters, now) ==
    IF generators = <<>>
    THEN [err |-> "none", heap |-> heap, disk |-> folder, now |-> now]
    ELSE write_each_next(
            write(heap[Head(generators).model_generator],
                  target_path(Head(generators), heap), folder,
                  code_validators, code_formatters, now + 1),
            generators, heap, code_validators, code_formatters, now + 1)

\* GeneratorContext.write_all: os.makedirs(output_folder, exist_ok=True) when
\* create_dir, then the loop
write_all(self, heap, folder, create_dir, now) ==
    write_each(self._generators, heap,
               IF create_dir THEN [folder EXCEPT !.dir = TRUE] ELSE folder,
               self.code_validators, self.code_formatters, now)

\* the arguments of the constructors and calls of a process
ContextClassNames == {<<"_", "M", "o", "d", "a", "l", "i", "t", "y">>, <<"m", "o", "d", "a", "l", "i", "t", "y">>}
ContextSources == {<<[name |-> <<"a">>, abbreviation |-> <<"-", "1">>]>>}
\* what self.parse() does in a constructor: the records, or the error of a
\* source that cannot be read
ContextParses == {Ok(parsed_source) : parsed_source \in ContextSources} \cup {Raise("FileNotFoundError")}
\* no resolver, or two resolvers that target the same field
ContextReferences ==
    {None,
     Some(<<MappableReferenceField(TypeOf("builtins", "str"), <<"\"", HOLE, "\"">>,
                                   "abbreviation", <<StrKey("name")>>),
            MappableReferenceField(TypeOf("builtins", "str"), <<"\"", HOLE, "\"">>,
                                   "abbreviation", <<StrKey("abbreviation")>>)>>)}
\* file_name of add_generator: None, or a name
FileNames == {<<>>, <<"m", ".", "p", "y">>}
\* the output folder before the process: absent, or holding a file
DiskInits ==
    {[dir |-> FALSE, files |-> EmptyDict],
     [dir |-> TRUE, files |-> Put(EmptyDict, <<"o", ".", "p", "y">>,
                        <<[generated_modalities EXCEPT !.file_header.dt = 0]>>)]}

NoOutcome == [op |-> "none", err |-> "none", args |-> <<>>, val |-> <<>>]

CtxIdle ==
    /\ cls_self = {}
    /\ instances = <<>>
    /\ model_generators = <<>>
    /\ ctx = 0
    /\ run_pc = "idle"
    /\ runs = 0
    /\ disk = [dir |-> FALSE, files |-> EmptyDict]
    /\ clock = 0
    /\ outcome = NoOutcome

\* a process that has imported the package: no context, no generator
CtxInit ==
    /\ cls_self = {}
    /\ instances = <<>>
    /\ model_generators = <<>>
    /\ ctx = 0
    /\ run_pc = "none"
    /\ runs = 0
    /\ disk \in DiskInits
    /\ clock = 0
    /\ outcome = NoOutcome

\* ModelGenerator(class_name, seed, source, parser, mappable_references=...)
\* with a parser that does one of parses
Construct(parses) ==
    /\ run_pc = "none"
    /\ Len(model_generators) < MaxGenerators
    /\ \E class_name \in ContextClassNames,
          parsed \in parses,
          mappable_references \in ContextReferences :
          \E made \in {ModelGenerator_init(class_name, parsed, mappable_references)} :
             /\ model_generators' =
                   IF made.err = "none" THEN Append(model_generators, made.val)
                   ELSE model_generators
             /\ outcome' = [op |-> "ModelGenerator", err |-> made.err,
                            args |-> mappable_references, val |-> class_name]
    /\ UNCHANGED <<cls_self, instances, ctx, run_pc, runs, disk, clock>>

\* the constructor calls of a process that goes on to use a GeneratorContext
NewModelGenerator == Construct(ContextParses)

\* with GeneratorContext(...) as ctx: __new__, __init__ and __enter__
With ==
    /\ run_pc \in {"none", "exited"}
    /\ runs < MaxRuns
    /\ runs' = runs + 1
    /\ \E arguments \in Pipelines :
          \E made \in {GeneratorContext_new(cls_self, instances,
                                            arguments.code_validators # <<>>)} :
             /\ outcome' = [op |-> "GeneratorContext", err |-> made.err,
                            args |-> <<>>, val |-> <<>>]
             /\ IF made.err # "none"
                THEN UNCHANGED <<cls_self, instances, ctx, run_pc>>
                ELSE /\ cls_self' = {made.val}
                     /\ instances' =
                           IF made.val > Len(instances)
                           THEN Append(instances,
                                       GeneratorContext_init(NewInstance,
                                                             arguments.code_validators,
                                                             arguments.code_formatters))
                           ELSE [instances EXCEPT ![made.val] =
                                    GeneratorContext_init(@, arguments.code_validators,
                                                          arguments.code_formatters)]
                     /\ ctx' = made.val
                     /\ run_pc' = "entered"
    /\ UNCHANGED <<model_generators, disk, clock>>

\* ctx.add_generator(generator, file_name)
AddGenerator ==
    /\ run_pc = "entered"
    /\ Len(instances[ctx]._generators) < MaxRegistrations
    /\ \E g \in 1..Len(model_generators), file_name \in FileNames :
          instances' = [instances EXCEPT ![ctx] = add_generator(@, g, file_name)]
    /\ outcome' = [op |-> "add_generator", err |-> "none", args |-> <<>>, val |-> <<>>]
    /\ UNCHANGED <<cls_self, model_generators, ctx, run_pc, runs, disk, clock>>

\* ctx.remove_generator(generator)
RemoveGenerator ==
    /\ run_pc = "entered"
    /\ \E g \in 1..Len(model_generators) :
          instances' = [instances EXCEPT ![ctx] = remove_generator(@, g)]
    /\ outcome' = [op |-> "remove_generator", err |-> "none", args |-> <<>>, val |-> <<>>]
    /\ UNCHANGED <<cls_self, model_generators, ctx, run_pc, runs, disk, clock>>

\* ctx.generate_all(); an exception leaves the with block
GenerateAll ==
    /\ run_pc = "entered"
    /\ clock + Len(instances[ctx]._generators) <= MaxTime
    /\ \E done \in {generate_all(instances[ctx]._generators, model_generators,
                                  instances[ctx].code_validators,
                                  instances[ctx].code_formatters, clock)} :
          /\ model_generators' = done.heap
          /\ clock' = done.now
          /\ outcome' = [op |-> "generate_all", err |-> done.err,
                         args |-> <<>>, val |-> done.val]
          /\ run_pc' = IF done.err = "none" THEN "entered" ELSE "raising"
    /\ UNCHANGED <<cls_self, instances, ctx, runs, disk>>

\* ctx.write_all(output_folder, create_dir); an exception leaves the with block
WriteAll ==
    /\ run_pc = "entered"
    /\ clock + Len(instances[ctx]._generators) <= MaxTime
    /\ \E create_dir \in BOOLEAN :
          \E done \in {write_all(instances[ctx], model_generators, disk, create_dir, clock)} :
             /\ model_generators' = done.heap
             /\ disk' = done.disk
             /\ clock' = done.now
             /\ outcome' = [op |-> "write_all", err |-> done.err,
                            args |-> <<create_dir>>, val |-> <<>>]
             /\ run_pc' = IF done.err = "none" THEN "entered" ELSE "raising"
    /\ UNCHANGED <<cls_self, instances, ctx, runs>>

\* the end of the with block: ctx.__exit__
Exit ==
    /\ run_pc \in {"entered", "raising"}
    /\ \E left \in {GeneratorContext_exit(instances[ctx], cls_self)} :
          /\ instances' = [instances EXCEPT ![ctx] = left.instance]
          /\ cls_self' = left.cls_self
    /\ run_pc' = "exited"
    /\ outcome' = [op |-> "__exit__", err |-> "none", args |-> <<>>, val |-> <<>>]
    /\ UNCHANGED <<model_generators, ctx, runs, disk, clock>>

\* GeneratorContext(code_validators, code_formatters) evaluated inside the
\* with block of the first context: __new__ returns the instance of the
\* class attribute and __init__ runs on it
SecondContext ==
    /\ run_pc = "entered"
    /\ \E arguments \in Pipelines :
          \E made \in {GeneratorContext_new(cls_self, instances,
                                            arguments.code_validators # <<>>)} :
             /\ outcome' = [op |-> "second GeneratorContext", err |-> made.err,
                            args |-> <<>>, val |-> <<>>]
             /\ instances' =
                   IF made.err # "none" THEN instances
                   ELSE IF made.val > Len(instances)
                   THEN Append(instances,
                               GeneratorContext_init(NewInstance,
                                                     arguments.code_validators,
                                                     arguments.code_formatters))
                   ELSE [instances EXCEPT ![made.val] =
                            GeneratorContext_init(@, arguments.code_validators,
                                                  arguments.code_formatters)]
    /\ UNCHANGED <<cls_self, model_generators, ctx, run_pc, runs, disk, clock>>

\* the constructor calls of a process that calls write on the objects: a
\* source whose text is Python, one whose text is not, one that cannot be
\* read
WriteParses ==
    ContextParses \cup {Ok(<<[name |-> <<"a">>, abbreviation |-> <<"b">>]>>)}

NewWrittenGenerator == Construct(WriteParses)

\* the arguments of a direct call of ModelGenerator.write
OutputPaths == {<<"m", ".", "p", "y">>, <<"o", ".", "p", "y">>}
WritePipelines ==
    Pipelines \cup
    {[code_validators |-> <<"CodeValidator">>, code_formatters |-> <<>>],
     [code_validators |-> <<"AstValidator", "CodeValidator">>, code_formatters |-> <<>>],
     [code_validators |-> <<"CodeValidator", "AstValidator">>,
      code_formatters |-> <<"BlackFormatter">>],
     [code_validators |-> <<"AstValidator">>,
      code_formatters |-> <<"ISortFormatter", "BlackFormatter">>]}

\* generator.write(output_path, code_validators, code_formatters), called
\* outside a GeneratorContext
Write ==
    /\ run_pc = "none"
    /\ clock < MaxTime
    /\ \E g \in 1..Len(model_generators), output_path \in OutputPaths,
          arguments \in WritePipelines :
          \E written \in {write(model_generators[g], output_path, disk,
                                 arguments.code_validators,
                                 arguments.code_formatters, clock + 1)} :
             /\ model_generators' = Stored(model_generators, g, written.blueprints)
             /\ disk' = written.disk
             /\ outcome' = [op |-> "write", err |-> written.err,
                            args |-> <<g, output_path, arguments.code_validators,
                                       arguments.code_formatters>>,
                            val |-> <<>>]
    /\ clock' = clock + 1
    /\ UNCHANGED <<cls_self, instances, ctx, run_pc, runs>>

-----------------------------------------------------------------------------
(* The module aind_data_schema_models.modalities *)

\* Python values of the module: an instance of a literal class, a mapping
\* (a dict parsed from JSON), and None
Instance(row) ==
    [kind |-> "instance", cls |-> row.key,
     fields |-> [name |-> row.name, abbreviation |-> row.abbreviation]]
Mapping(fields) == [kind |-> "dict", cls |-> "dict", fields |-> fields]
PyNone == [kind |-> "None", cls |-> "NoneType", fields |-> [name |-> "", abbreviation |-> ""]]

\* a before-validator that returns what it is given
_coerce_nothing(v, POPHYS) == v

\* modalities._coerce_ophys_to_pophys, POPHYS being Modality.POPHYS
_coerce_ophys_to_pophys(v, POPHYS) ==
    IF /\ v.kind = "dict"
       /\ "abbreviation" \in DOMAIN v.fields
       /\ v.fields["abbreviation"] = "ophys"
    THEN POPHYS
    ELSE v

\* utils.create_literal_class(objects, class_name, base_model,
\* discriminator, validators): one literal class and one named constant per
\* row, ALL the classes in the order of the rows, ONE_OF their union tagged by
\* the discriminator
create_literal_class(objects, discriminator) ==
    [constants |-> [key \in {objects[i].key : i \in 1..Len(objects)} |->
                       Instance(objects[CHOOSE i \in 1..Len(objects) :
                                           /\ objects[i].key = key
                                           /\ \A j \in 1..Len(objects) :
                                                 objects[j].key = key => j <= i])],
     ALL |-> objects,
     discriminator |-> discriminator,
     abbreviation_map |-> [a \in {} |-> PyNone]]

\* {m().abbreviation: m() for m in Modality.ALL}: the later class wins
abbreviation_map_of(ALL) ==
    [a \in {ALL[i].abbreviation : i \in 1..Len(ALL)} |->
        Instance(ALL[CHOOSE i \in 1..Len(ALL) :
                        /\ ALL[i].abbreviation = a
                        /\ \A j \in 1..Len(ALL) : ALL[j].abbreviation = a => j <= i])]

\* a class with the attribute name set to value
SetAttribute(constants, name, value) ==
    [k \in DOMAIN constants \cup {name} |-> IF k = name THEN value ELSE constants[k]]

\* the statements of modalities.py after create_literal_class:
\* Modality.OPHYS = Modality.POPHYS, Modality.abbreviation_map = {...}
modalities_statements(made) ==
    IF "POPHYS" \notin DOMAIN made.constants THEN Raise("AttributeError")
    ELSE Ok([made EXCEPT !.constants = SetAttribute(@, "OPHYS", @["POPHYS"]),
                         !.abbreviation_map = abbreviation_map_of(made.ALL)])

\* importing modalities.py, read_csv having returned objects
modalities_module(objects) ==
    modalities_statements(create_literal_class(objects, "abbreviation"))

\* Modality.from_abbreviation = lambda x: Modality.abbreviation_map.get(x)
Modality_from_abbreviation(cls, x) ==
    IF x \in DOMAIN cls.abbreviation_map THEN cls.abbreviation_map[x] ELSE PyNone

\* the classes of ALL whose discriminator field has the value tag
Tagged(cls, tag) ==
    {i \in 1..Len(cls.ALL) : cls.ALL[i][cls.discriminator] = tag}

\* validation of a value against the tagged union of the classes of ALL: an
\* instance of one of the classes is taken as it is; a mapping is given to
\* the class its discriminator value names, whose Literal fields accept
\* their one value only and have it as default
validate_union(cls, v) ==
    IF v.kind = "instance"
    THEN IF \E i \in 1..Len(cls.ALL) : Instance(cls.ALL[i]) = v
         THEN Ok(v) ELSE Raise("ValidationError")
    ELSE IF v.kind # "dict" \/ cls.discriminator \notin DOMAIN v.fields
    THEN Raise("ValidationError")
    ELSE IF Tagged(cls, v.fields[cls.discriminator]) = {}
    THEN Raise("ValidationError")
    ELSE LET variant == cls.ALL[CHOOSE i \in Tagged(cls, v.fields[cls.discriminator]) : TRUE]
         IN  IF \A k \in DOMAIN v.fields : k \in {"name", "abbreviation"} /\ v.fields[k] = variant[k]
             THEN Ok(Instance(variant))
             ELSE Raise("ValidationError")

\* validation of a field annotated Modality.ONE_OF: the BeforeValidator of
\* the module, then the union
validate_ONE_OF(cls, v) ==
    validate_union(cls, _coerce_ophys_to_pophys(v, cls.constants["POPHYS"]))

\* the rows of modalities.csv: the POPHYS row and any of three others
POPHYS_ROW == [key |-> "POPHYS", name |-> "Planar optical physiology", abbreviation |-> "pophys"]
ModalityRows ==
    <<[key |-> "ECEPHYS", name |-> "Extracellular electrophysiology", abbreviation |-> "ecephys"],
      [key |-> "OPHYS", name |-> "Optical physiology", abbreviation |-> "ophys"],
      POPHYS_ROW,
      [key |-> "SPIM", name |-> "Selective plane illumination microscopy", abbreviation |-> "SPIM"]>>
ModalityFiles ==
    {SelectSeq(ModalityRows, LAMBDA row : row.key \in kept \cup {"POPHYS"}) :
        kept \in SUBSET {"ECEPHYS", "OPHYS", "SPIM"}}
\* the arguments of from_abbreviation and the values given to ONE_OF
AbbreviationArgs == {"ecephys", "ophys", "pophys", "SPIM", "spim"}
MappingNames == {"Planar optical physiology", "Extracellular electrophysiology", "foo bar"}
OneOfInputs ==
    {Mapping([name |-> n, abbreviation |-> a]) :
        n \in MappingNames, a \in {"ecephys", "ophys", "pophys"}}
      \cup {Mapping([abbreviation |-> a]) : a \in {"ophys", "pophys"}}
      \cup {Mapping([name |-> "foo bar"])}
      \cup {Instance(ModalityRows[i]) : i \in 1..Len(ModalityRows)}

NoCall == [op |-> "none", abbreviation |-> "", value |-> PyNone]
NoValue == [err |-> "unset", val |-> PyNone]

MdIdle ==
    /\ modalities_csv = <<>>
    /\ Modality = NoValue
    /\ md_call = NoCall
    /\ md_result = NoValue

\* a process that has imported aind_data_schema_models.modalities
MdInit ==
    /\ modalities_csv \in ModalityFiles
    /\ Modality = modalities_module(modalities_csv)
    /\ md_call = NoCall
    /\ md_result = NoValue

\* Modality.from_abbreviation(x)
CallFromAbbreviation ==
    /\ Modality.err = "none"
    /\ \E x \in AbbreviationArgs :
          /\ md_call' = [op |-> "from_abbreviation", abbreviation |-> x, value |-> PyNone]
          /\ md_result' = Ok(Modality_from_abbreviation(Modality.val, x))
    /\ UNCHANGED <<modalities_csv, Modality>>

\* validation of a value for a field annotated Modality.ONE_OF
ValidateOneOf ==
    /\ Modality.err = "none"
    /\ \E v \in OneOfInputs :
          /\ md_call' = [op |-> "ONE_OF", abbreviation |-> "", value |-> v]
          /\ md_result' = validate_ONE_OF(Modality.val, v)
    /\ UNCHANGED <<modalities_csv, Modality>>

-----------------------------------------------------------------------------
(* Two ModelGenerator objects and the list objects of their name hints *)

\* the list _class_name_hints once the loop "Solve for the class name" has
\* popped it
RECURSIVE pop_hints(_, _, _)
pop_hints(class_name, hints, parsed_source) ==
    IF ~class_name.none \/ hints = <<>> THEN hints
    ELSE pop_hints(IF Head(hints) \in DOMAIN parsed_source
                   THEN Some(parsed_source[Head(hints)]) ELSE None,
                   Tail(hints), parsed_source)

\* the loop popping the list it was given
class_name_hints_popped(class_name, class_name_hints, parsed_source) ==
    pop_hints(class_name, class_name_hints, parsed_source)

\* the list object passed as class_name_hints after generate_literal_model:
\* _class_name_hints = class_name_hints.copy(), the loop pops the copy
class_name_hints_left(class_name, class_name_hints, parsed_source) ==
    class_name_hints

\* the list object self._literal_class_name_hints after the loop of
\* generate() over the records
RECURSIVE hints_after_generate(_, _)
hints_after_generate(hints, parsed_source) ==
    IF parsed_source = <<>> THEN hints
    ELSE hints_after_generate(class_name_hints_left(None, hints, Head(parsed_source)),
                              Tail(parsed_source))

\* __init__: literal_class_name_hints or self._DEFAULT_LITERAL_CLASS_NAME_HINTS,
\* as a reference to a list object (NoList for None); None and an empty list
\* give the list of the class
DefaultHints == 1
NoList == 0
ModelGenerator_hints(literal_class_name_hints, lists) ==
    IF literal_class_name_hints = NoList THEN DefaultHints
    ELSE IF lists[literal_class_name_hints] = <<>> THEN DefaultHints
    ELSE literal_class_name_hints

\* a ModelGenerator constructed with literal_class_name_hints
HintedGenerator(made, literal_class_name_hints, lists) ==
    [gen |-> made.gen,
     _literal_model_blueprints |-> made._literal_model_blueprints,
     _literal_class_name_hints |-> ModelGenerator_hints(literal_class_name_hints, lists)]

\* self with the hints its list object holds now
Dereferenced(self, lists) ==
    [gen |-> [self.gen EXCEPT !.literal_class_name_hints =
                                  lists[self._literal_class_name_hints]],
     _literal_model_blueprints |-> self._literal_model_blueprints]

\* the lists, sources and constructor arguments of the two generators
HintLists == <<DEFAULT_LITERAL_CLASS_NAME_HINTS, <<"name">>>>
HintArguments == {NoList, 2}
IndependentSources ==
    {<<[name |-> <<"a">>, abbreviation |-> <<"b">>]>>,
     <<[name |-> <<"c">>], [name |-> <<"a">>, abbreviation |-> <<"b">>]>>}
IndependentGenerators ==
    {HintedGenerator(ModelGenerator_init(<<"_", "M", "o", "d", "a", "l", "i", "t", "y">>,
                                         Ok(parsed_source), None).val,
                     hints, HintLists) :
        parsed_source \in IndependentSources, hints \in HintArguments}

IndIdle == hint_lists = <<>>

\* a process that has constructed two generators
IndInit ==
    /\ hint_lists = HintLists
    /\ model_generators \in {<<a, b>> : a \in IndependentGenerators, b \in IndependentGenerators}
    /\ cls_self = {}
    /\ instances = <<>>
    /\ ctx = 0
    /\ run_pc = "none"
    /\ runs = 0
    /\ disk = [dir |-> TRUE, files |-> EmptyDict]
    /\ clock = 0
    /\ outcome = NoOutcome

\* what a call on generator g leaves in the objects other than the text
RunEffect(g, blueprints) ==
    /\ model_generators' = Stored(model_generators, g, blueprints)
    /\ hint_lists' =
          [hint_lists EXCEPT ![model_generators[g]._literal_class_name_hints] =
              hints_after_generate(@, model_generators[g].gen.parsed_source)]
    /\ clock' = clock + 1
    /\ UNCHANGED <<cls_self, instances, ctx, run_pc, runs>>

\* g.generate(code_validators, code_formatters) on one of the two
RunGenerate ==
    /\ clock < MaxTime
    /\ \E g \in 1..Len(model_generators), arguments \in Pipelines :
          \E call \in {generate(Dereferenced(model_generators[g], hint_lists).gen,
                                 model_generators[g]._literal_model_blueprints,
                                 arguments.code_validators,
                                 arguments.code_formatters, clock + 1)} :
             /\ RunEffect(g, call.blueprints)
             /\ outcome' = [op |-> "generate", err |-> call.result.err,
                            args |-> <<g, <<>>, arguments>>, val |-> call.result.val]
             /\ UNCHANGED disk

\* g.write(output_path, code_validators, code_formatters) on one of the two
RunWrite ==
    /\ clock < MaxTime
    /\ \E g \in 1..Len(model_generators), output_path \in OutputPaths,
          arguments \in Pipelines :
          \E written \in {write(Dereferenced(model_generators[g], hint_lists),
                                 output_path, disk, arguments.code_validators,
                                 arguments.code_formatters, clock + 1)} :
             /\ RunEffect(g, written.blueprints)
             /\ disk' = written.disk
             /\ outcome' = [op |-> "write", err |-> written.err,
                            args |-> <<g, output_path, arguments>>, val |-> <<>>]

-----------------------------------------------------------------------------
(* One call of TemplateHelper.class_header with a list of parents *)

\* separator.join(items) on strings
RECURSIVE str_join(_, _)
str_join(separator, items) ==
    IF items = <<>> THEN <<>>
    ELSE IF Len(items) = 1 THEN Head(items)
    ELSE Head(items) \o separator \o str_join(separator, Tail(items))

\* TemplateHelper.class_header with parent_name None or a list:
\*   parent_name = ", ".join([cls for cls in class_name])
\* the comprehension runs over the characters of class_name
class_header_of_list(class_name, parent_name) ==
    IF parent_name.none THEN _orfan_class_header(class_name)
    ELSE IF Len(parent_name.value) = 0 THEN _orfan_class_header(class_name)
    ELSE [template |-> "class", class_name |-> class_name,
          parent_name |-> str_join(<<",", " ">>,
                                   [i \in 1..Len(class_name) |-> <<class_name[i]>>])]

\* the class names and the parent lists of the calls
HeaderLetters == {"A", "b"}
HeaderClassNames ==
    UNION {[1..n -> HeaderLetters] : n \in 1..MaxNameLen}
ParentNames == {<<"A">>, <<"B", "a">>}
ParentLists ==
    {None} \cup {Some(parents) : parents \in UNION {[1..n -> ParentNames] : n \in 0..2}}

NoHeaderArgs == [class_name |-> <<>>, parent_name |-> None]

ThIdle ==
    /\ th_pc = "idle"
    /\ th_args = NoHeaderArgs
    /\ th_result = NoResult

ThInit ==
    /\ th_pc = "ready"
    /\ th_args = NoHeaderArgs
    /\ th_result = NoResult

\* TemplateHelper.class_header(class_name, parent_name)
ClassHeader ==
    /\ th_pc \in {"ready", "done"}
    /\ \E class_name \in HeaderClassNames, parent_name \in ParentLists :
          /\ th_args' = [class_name |-> class_name, parent_name |-> parent_name]
          /\ th_result' = Ok(class_header_of_list(class_name, parent_name))
    /\ th_pc' = "done"

vars == <<sanVars, mrVars, lmVars, genVars, ctVars, ctxVars, mdVars, thVars, indVars>>

SanNext ==
    \/ Sanitize /\ UNCHANGED <<mrVars, lmVars, genVars, ctVars, ctxVars, mdVars, thVars, indVars>>
    \/ SanitizeAgain /\ UNCHANGED <<mrVars, lmVars, genVars, ctVars, ctxVars, mdVars, thVars, indVars>>
    \/ CreateEnumKey /\ UNCHANGED <<mrVars, lmVars, genVars, ctVars, ctxVars, mdVars, thVars, indVars>>

InitSanitize == SanInit /\ MrIdle /\ LmIdle /\ GenIdle /\ CtIdle /\ CtxIdle /\ MdIdle /\ ThIdle /\ IndIdle

SpecSanitize == InitSanitize /\ [][SanNext]_vars

MrNext == MrCall /\ UNCHANGED <<sanVars, lmVars, genVars, ctVars, ctxVars, mdVars, thVars, indVars>>

InitResolver == MrInit /\ SanIdle /\ LmIdle /\ GenIdle /\ CtIdle /\ CtxIdle /\ MdIdle /\ ThIdle /\ IndIdle

SpecResolver == InitResolver /\ [][MrNext]_vars

LmNext == GenerateLiteralModel /\ UNCHANGED <<sanVars, mrVars, genVars, ctVars, ctxVars, mdVars, thVars, indVars>>

InitLiteral == LmInit /\ SanIdle /\ MrIdle /\ GenIdle /\ CtIdle /\ CtxIdle /\ MdIdle /\ ThIdle /\ IndIdle

SpecLiteral == InitLiteral /\ [][LmNext]_vars

Init == GenInit /\ SanIdle /\ MrIdle /\ LmIdle /\ CtIdle /\ CtxIdle /\ MdIdle /\ ThIdle /\ IndIdle

Next == Generate /\ UNCHANGED <<sanVars, mrVars, lmVars, ctVars, ctxVars, mdVars, thVars, indVars>>

Spec == Init /\ [][Next]_vars

CtNext ==
    \/ ImportModule /\ UNCHANGED <<sanVars, mrVars, lmVars, genVars, ctxVars, mdVars, thVars, indVars>>
    \/ FromAbbreviation /\ UNCHANGED <<sanVars, mrVars, lmVars, genVars, ctxVars, mdVars, thVars, indVars>>

InitContainer == CtInit /\ SanIdle /\ MrIdle /\ LmIdle /\ GenIdle /\ CtxIdle /\ MdIdle /\ ThIdle /\ IndIdle

SpecContainer == InitContainer /\ [][CtNext]_vars

CtxNext ==
    \/ NewModelGenerator /\ UNCHANGED <<sanVars, mrVars, lmVars, genVars, ctVars, mdVars, thVars, indVars>>
    \/ With /\ UNCHANGED <<sanVars, mrVars, lmVars, genVars, ctVars, mdVars, thVars, indVars>>
    \/ AddGenerator /\ UNCHANGED <<sanVars, mrVars, lmVars, genVars, ctVars, mdVars, thVars, indVars>>
    \/ RemoveGenerator /\ UNCHANGED <<sanVars, mrVars, lmVars, genVars, ctVars, mdVars, thVars, indVars>>
    \/ GenerateAll /\ UNCHANGED <<sanVars, mrVars, lmVars, genVars, ctVars, mdVars, thVars, indVars>>
    \/ WriteAll /\ UNCHANGED <<sanVars, mrVars, lmVars, genVars, ctVars, mdVars, thVars, indVars>>
    \/ Exit /\ UNCHANGED <<sanVars, mrVars, lmVars, genVars, ctVars, mdVars, thVars, indVars>>

InitContext == CtxInit /\ SanIdle /\ MrIdle /\ LmIdle /\ GenIdle /\ CtIdle /\ MdIdle /\ ThIdle /\ IndIdle

SpecContext == InitContext /\ [][CtxNext]_vars

NestedNext ==
    \/ CtxNext
    \/ SecondContext /\ UNCHANGED <<sanVars, mrVars, lmVars, genVars, ctVars, mdVars, thVars, indVars>>

SpecNested == InitContext /\ [][NestedNext]_vars

WriteNext ==
    \/ NewWrittenGenerator /\ UNCHANGED <<sanVars, mrVars, lmVars, genVars, ctVars, mdVars, thVars, indVars>>
    \/ Write /\ UNCHANGED <<sanVars, mrVars, lmVars, genVars, ctVars, mdVars, thVars, indVars>>

\* a process that makes ModelGenerator objects and calls write on them
SpecWrite == InitContext /\ [][WriteNext]_vars

MdNext ==
    \/ CallFromAbbreviation /\ UNCHANGED <<sanVars, mrVars, lmVars, genVars, ctVars, ctxVars, thVars, indVars>>
    \/ ValidateOneOf /\ UNCHANGED <<sanVars, mrVars, lmVars, genVars, ctVars, ctxVars, thVars, indVars>>

InitModality == MdInit /\ SanIdle /\ MrIdle /\ LmIdle /\ GenIdle /\ CtIdle /\ CtxIdle /\ ThIdle /\ IndIdle

SpecModality == InitModality /\ [][MdNext]_vars

IndNext ==
    \/ RunGenerate /\ UNCHANGED <<sanVars, mrVars, lmVars, genVars, ctVars, mdVars, thVars>>
    \/ RunWrite /\ UNCHANGED <<sanVars, mrVars, lmVars, genVars, ctVars, mdVars, thVars>>

InitIndependent == IndInit /\ SanIdle /\ MrIdle /\ LmIdle /\ GenIdle /\ CtIdle /\ MdIdle /\ ThIdle

SpecIndependent == InitIndependent /\ [][IndNext]_vars

ThNext == ClassHeader /\ UNCHANGED <<sanVars, mrVars, lmVars, genVars, ctVars, ctxVars, mdVars, indVars>>

InitTemplate == ThInit /\ SanIdle /\ MrIdle /\ LmIdle /\ GenIdle /\ CtIdle /\ CtxIdle /\ MdIdle /\ IndIdle

SpecTemplate == InitTemplate /\ [][ThNext]_vars

-----------------------------------------------------------------------------
(* Properties of ModelGenerator.generate (specification Spec) *)

WithoutTimestamp(text) == [text EXCEPT !.file_header.dt = "-"]

\* the class names a text declares, in order
DeclaredClasses(text) ==
    [i \in 1..Len(text.literal_models) |-> text.literal_models[i][1].text.class_name]

\* the named constants of the container of a text, in order
NamedConstants(text) ==
    SelectSeq(text.enum_like_class, LAMBDA item : item.text.template = "entry")

\* the class name generate() resolves for a record: the default hints in order
OriginalKey(record) ==
    IF "abbreviation" \in DOMAIN record THEN record["abbreviation"] ELSE record["name"]

\* C1: two generate() calls on the same generator, with the same records,
\* validators and formatters, return the same text except for the timestamp
\* of the file header.
C1_GenerateTwiceSameText ==
    \A i \in 1..Len(generated) : \A j \in 1..Len(generated) :
        (i < j /\ generated[i].err = "none" /\ generated[j].err = "none")
            => WithoutTimestamp(generated[i].val) = WithoutTimestamp(generated[j].val)

\* C2: the text generate() returns for N records declares exactly N literal
\* classes and N named constants, the k-th of each made from the k-th record,
\* and two records with different original keys never share a class name or a
\* constant key (the later declaration would replace the earlier one).
C2_OneVariantPerRecord ==
    \A c \in 1..Len(generated) :
        generated[c].err = "none" =>
            LET text == generated[c].val
                records == generator.parsed_source
                classes == DeclaredClasses(text)
                constants == NamedConstants(text)
            IN  /\ Len(classes) = Len(records)
                /\ Len(constants) = Len(records)
                /\ \A k \in 1..Len(records) :
                      /\ classes[k] = sanitize_class_name(OriginalKey(records[k])).val
                      /\ constants[k].text.instance = classes[k]
                /\ \A j \in 1..Len(records) : \A k \in 1..Len(records) :
                      OriginalKey(records[j]) # OriginalKey(records[k])
                          => /\ classes[j] # classes[k]
                             /\ constants[j].text.key # constants[k].text.key

\* whether the container of a text has the abbreviation lookup
HasLookup(text) ==
    \E i \in 1..Len(text.enum_like_class) :
        text.enum_like_class[i].text.template = "abbreviation_map"

\* whether a literal class assigns the field
CarriesField(code_builder, field_name) ==
    \E j \in 1..Len(code_builder) :
        /\ code_builder[j].text.template = "field"
        /\ code_builder[j].text.field_name = field_name

\* C19: the text generate() returns has the abbreviation lookup exactly when
\* the generator is configured to render it and every literal class of the
\* text carries an abbreviation field.
C19_LookupOnlyWithAbbreviations ==
    \A c \in 1..Len(generated) :
        generated[c].err = "none" =>
            LET text == generated[c].val
            IN  HasLookup(text) =
                  /\ generator.render_abbreviation_map
                  /\ \A i \in 1..Len(text.literal_models) :
                        CarriesField(text.literal_models[i], "abbreviation")

\* what generate_literal_model does with the k-th record of the generator
RecordBlueprint(k) ==
    generate_literal_model(generator.parsed_source[k], generator.seed_model_type,
                           generator.mappable_references, None,
                           Some(generator.literal_class_name_hints), FALSE)

\* the records of the generator on which generate_literal_model raises
OffendingRecords ==
    {k \in 1..Len(generator.parsed_source) : RecordBlueprint(k).err # "none"}

\* C21: when generate_literal_model raises on a record of the source, every
\* generate() call raises the error of the first such record and returns no
\* text; a text that is returned declares a class for every record
C21_RecordErrorAborts ==
    \A c \in 1..Len(generated) :
        /\ OffendingRecords # {}
              => \E k \in OffendingRecords :
                    /\ \A j \in OffendingRecords : k <= j
                    /\ generated[c].err = RecordBlueprint(k).err
        /\ generated[c].err = "none"
              => \A k \in 1..Len(generator.parsed_source) :
                    \E i \in 1..Len(generated[c].val.literal_models) :
                       generated[c].val.literal_models[i] = RecordBlueprint(k).val.code_builder

\* a source whose first record is complete and whose second record is
\* empty: generate() has raised ValueError, the blueprint of the first
\* record being already in the list
C21_Witness ==
    /\ generator.parsed_source =
          <<[name |-> <<"a">>, abbreviation |-> <<"b">>], EmptyDict>>
    /\ Len(generated) = 1
    /\ generated[1].err = "ValueError"
    /\ Len(_literal_model_blueprints) = 1

-----------------------------------------------------------------------------
(* Properties of sanitize_class_name (specification SpecSanitize) *)

\* C3: sanitize_class_name is idempotent: applied to its own result it
\* returns that result.
C3_SanitizeIdempotent ==
    san_pc = "twice" => san_twice = san_once

\* C4: whatever sanitize_class_name returns is a valid identifier: non-empty,
\* starting with a letter or an underscore, and free of the stripped
\* punctuation.
C4_SanitizeValidIdentifier ==
    (san_pc = "once" /\ san_once.err = "none") =>
        /\ san_once.val # <<>>
        /\ san_once.val[1] \in Letters \cup {"_"}
        /\ \A i \in 1..Len(san_once.val) : san_once.val[i] \notin SPECIAL_CHARACTERS

\* the characters of a key that a run is made of: everything but letters and digits
IsSeparator(c) == c \notin Letters \cup Digits

\* the number of maximal runs of separators in a key
RunCount(x) ==
    Cardinality({i \in 1..Len(x) :
                    IsSeparator(x[i]) /\ (i = 1 \/ ~IsSeparator(x[i - 1]))})

\* C20: the named constant of a non-empty original key is the key with every
\* run of punctuation, whitespace and underscores replaced by one "_",
\* uppercased, with one more "_" in front exactly when the key begins with a
\* digit or an underscore, and it is a legal identifier; the empty key raises.
C20_EnumKey ==
    san_key.err # "unset" =>
        LET x == san_class_name
            key == san_key.val
            prefixed == x # <<>> /\ (x[1] = "_" \/ IsDigit(x[1]))
            body == IF prefixed THEN Tail(key) ELSE key
        IN  /\ (san_key.err = "none") = (x # <<>>)
            /\ x # <<>> =>
                  /\ IsIdentifier(key)
                  /\ prefixed => key[1] = "_"
                  /\ \A i \in 1..Len(body) : body[i] \in UpperLetters \cup Digits \cup {"_"}
                  /\ \A i \in 1..(Len(body) - 1) : ~(body[i] = "_" /\ body[i + 1] = "_")
                  /\ SelectSeq(body, LAMBDA c : c # "_")
                        = StrUpper(SelectSeq(x, LAMBDA c : ~IsSeparator(c)))
                  /\ Cardinality({i \in 1..Len(body) : body[i] = "_"}) = RunCount(x)
                  /\ (body[1] = "_") = IsSeparator(x[1])
                  /\ (body[Len(body)] = "_") = IsSeparator(x[Len(x)])

\* a key that begins with a digit and ends with a run of two separators
C20_Witness ==
    /\ san_class_name = <<"1", "-", ".">>
    /\ san_key = Ok(<<"_", "1", "_">>)

-----------------------------------------------------------------------------
(* Properties of generate_literal_model (specification SpecLiteral) *)

LmHints == IF lm_args.class_name_hints.none THEN <<>> ELSE lm_args.class_name_hints.value

\* the hints, in order, for which the record yields a non-empty value
YieldingHints ==
    SelectSeq(LmHints,
              LAMBDA h : h \in DOMAIN lm_args.parsed_source
                            /\ lm_args.parsed_source[h] # <<>>)

\* C5: when no class name is passed, the call behaves as if it had been passed
\* the value of the first hint, in hint order, for which the record yields a
\* non-empty value: missing and empty values are skipped.
C5_FirstNonEmptyHint ==
    (lm_pc = "returned" /\ lm_args.class_name.none /\ YieldingHints # <<>>) =>
        lm_result =
            generate_literal_model(
                lm_args.parsed_source, lm_args.seed_model_type,
                lm_args.mappable_references,
                Some(lm_args.parsed_source[YieldingHints[1]]),
                lm_args.class_name_hints, lm_args.require_all_fields_mapped)

\* C6: a record in which no hint yields a name (every hinted value is missing
\* or empty), synthesized without a class name, makes the call raise: no
\* blueprint is returned, so none with an empty name.
C6_NoNameRaises ==
    (lm_pc = "returned" /\ lm_args.class_name.none /\ YieldingHints = <<>>) =>
        lm_result.err # "none"

\* C6 witness: the empty record with the default hints has raised ValueError.
C6_Witness ==
    /\ lm_pc = "returned"
    /\ lm_args.class_name.none
    /\ lm_args.class_name_hints = Some(DEFAULT_LITERAL_CLASS_NAME_HINTS)
    /\ lm_args.parsed_source = EmptyDict
    /\ lm_result.err = "ValueError"

\* whether the class name of the call resolves and sanitizes
LmNamed ==
    LET solved == solve_class_name(lm_args.class_name, LmHints, lm_args.parsed_source)
    IN  ~solved.none /\ Translate(solved.value) # <<>>

\* the position of the reference that targets a field: the first one in the
\* list with that field_name; 0 when there is none
Targeting(field_name) ==
    LET refs == lm_args.mappable_references.value
        at == {i \in 1..Len(refs) : refs[i].field_name = field_name}
    IN  IF lm_args.mappable_references.none \/ at = {} THEN 0
        ELSE CHOOSE i \in at : \A j \in at : i <= j

\* the text of the reference that targets a field, as __call__ returns it
ResolverText(field_name) ==
    LET ref == lm_args.mappable_references.value[Targeting(field_name)]
    IN  MappableReferenceField_call(ref.handlers, ref.pattern, lm_args.parsed_source)

LmFields == lm_args.seed_model_type.model_fields

\* the fields of the seed model that some rule gives a value
EmittedFields ==
    SelectSeq(LmFields,
              LAMBDA f : Targeting(f.name) # 0 \/ f.name \in DOMAIN lm_args.parsed_source)

\* the field lines of the returned blueprint (after the class header)
ReturnedFields == Tail(lm_result.val.code_builder)

Unindented(text) ==
    LET from == CHOOSE n \in 0..Len(text) :
                    /\ ~IsBlank(FirstLine(SubSeq(text, n + 1, Len(text))))
                    /\ \A m \in 0..(n - 1) :
                          IsBlank(FirstLine(SubSeq(text, m + 1, Len(text))))
        kept == SubSeq(text, from + 1, Len(text))
        lines == SplitLines(kept, <<>>)
        margin == CHOOSE n \in 0..Len(lines[1]) :
                    /\ \A m \in 1..n : lines[1][m] \in Whitespace
                    /\ n < Len(lines[1]) /\ lines[1][n + 1] \notin Whitespace
    IN  JoinLines([i \in 1..Len(lines) |->
                      SubSeq(lines[i], margin + 1, Len(lines[i]))])

\* whether every reference that targets a field of the seed model returns a
\* text with a non-blank character
ReferencesResolve ==
    \A i \in 1..Len(LmFields) :
        Targeting(LmFields[i].name) # 0 =>
            /\ ResolverText(LmFields[i].name).err = "none"
            /\ ~IsBlank(ResolverText(LmFields[i].name).val)

C8_StrictMode ==
    (lm_pc = "returned" /\ lm_args.require_all_fields_mapped /\ LmNamed
        /\ ReferencesResolve) =>
        IF Len(EmittedFields) = Len(LmFields)
        THEN /\ lm_result.err = "none"
             /\ Len(ReturnedFields) = Len(LmFields)
        ELSE lm_result.err # "none"

-----------------------------------------------------------------------------
(* Properties of MappableReferenceField (specification SpecResolver) *)

\* C9: the call raises the missing-key error whenever one of the source keys
\* declared at construction, at any position and in either form, is no key of
\* the record.
C9_MissingKeyRaises ==
    (mr_pc = "called"
        /\ \E i \in 1..Len(mr_declared) : mr_declared[i].field \notin DOMAIN mr_source)
        => mr_result.err = "KeyError"

\* C10: on a record that has all the declared source keys k1..kn the call
\* returns the pattern with its i-th placeholder filled by the record's value
\* of ki, after ki's own transform when it has one.
C10_PositionalFill ==
    (mr_pc = "called"
        /\ \A i \in 1..Len(mr_declared) : mr_declared[i].field \in DOMAIN mr_source)
        => mr_result =
              Format(mr_pattern,
                     [i \in 1..Len(mr_declared) |->
                         ApplyHandle(mr_declared[i].function_handle,
                                     mr_source[mr_declared[i].field])])

-----------------------------------------------------------------------------
(* Properties of the abbreviation lookup (specification SpecContainer) *)

\* the keys of the named constants of a text, the k-th one made from the
\* k-th blueprint
ConstantKeys(text) ==
    LET entries == SelectSeq(text.enum_like_class,
                             LAMBDA item : item.text.template = "entry")
    IN  [i \in 1..Len(entries) |-> entries[i].text.key]

\* the abbreviation of the c-th variant of the imported module
AbbreviationOf(c) == container.val.classes[c].defaults["abbreviation"]

\* C17: in a module with an abbreviation lookup, from_abbreviation called
\* with the non-empty abbreviation of a variant returns an instance equal to
\* the named constant of that variant.
C17_AbbreviationRoundTrip ==
    ct_pc = "called" =>
        \A c \in 1..Len(container.val.classes) :
            (AbbreviationOf(c) # <<>> /\ AbbreviationOf(c) = ct_abbreviation)
                => /\ ct_result.err = "none"
                   /\ ~ct_result.val.none
                   /\ ct_result.val.value
                         = container.val.constants[ConstantKeys(ct_module.text)[c]]

\* C18: in a module with an abbreviation lookup, from_abbreviation called
\* with a code that is the abbreviation of no variant returns None and does
\* not raise.
C18_UnknownAbbreviationIsNone ==
    (/\ ct_pc = "called"
     /\ \A c \in 1..Len(container.val.classes) : AbbreviationOf(c) # ct_abbreviation)
        => /\ ct_result.err = "none"
           /\ ct_result.val.none

-----------------------------------------------------------------------------
(* Properties of ModelGenerator.__init__ and GeneratorContext (SpecContext) *)

\* two resolvers of a list that name the same field
HasDuplicateTargets(mappable_references) ==
    /\ ~mappable_references.none
    /\ \E i, j \in 1..Len(mappable_references.value) :
          /\ i # j
          /\ mappable_references.value[i].field_name = mappable_references.value[j].field_name

\* C11: a ModelGenerator constructed with two resolvers that target the same
\* field raises at construction; no ModelGenerator object with such resolvers
\* exists, so none has a blueprint, is registered or is generated
C11_DuplicateTargetsRaise ==
    /\ (outcome.op = "ModelGenerator" /\ HasDuplicateTargets(outcome.args))
          => outcome.err # "none"
    /\ \A g \in 1..Len(model_generators) :
          ~HasDuplicateTargets(model_generators[g].gen.mappable_references)

\* a construction with a valid class name, a readable source and two
\* resolvers for "abbreviation" has raised ValueError and made no object
C11_Witness ==
    /\ outcome.op = "ModelGenerator"
    /\ HasDuplicateTargets(outcome.args)
    /\ outcome.err = "ValueError"
    /\ outcome.val = <<"_", "M", "o", "d", "a", "l", "i", "t", "y">>
    /\ model_generators = <<>>

\* C12: once a with block of a GeneratorContext has been left its registry
\* is empty, and the context a later with statement constructs begins with an
\* empty registry, whatever the calls made in the earlier block
C12_RunsShareNoRegistrations ==
    /\ run_pc = "exited" => instances[ctx]._generators = <<>>
    /\ (outcome.op = "GeneratorContext" /\ outcome.err = "none")
          => instances[ctx]._generators = <<>>

\* the second with statement of a process has just constructed its context,
\* after a first block that registered a generator and generated it
C12_Witness ==
    /\ runs = 2
    /\ outcome.op = "GeneratorContext"
    /\ outcome.err = "none"
    /\ run_pc = "entered"
    /\ \E g \in 1..Len(model_generators) :
          model_generators[g]._literal_model_blueprints # <<>>
    /\ instances[ctx]._generators = <<>>

\* C13: after __exit__ the class attribute GeneratorContext._self holds no
\* instance, and a context constructed after an exit is an object that did
\* not exist before
C13_SlotResetOnExit ==
    /\ run_pc = "exited" => cls_self = {}
    /\ (outcome.op = "GeneratorContext" /\ outcome.err = "none" /\ runs > 1)
          => Len(instances) > 1

\* a step of write_all: the only call that leaves outcome.op = "write_all"
IsWriteAll == run_pc = "entered" /\ outcome'.op = "write_all"

\* the path write_all gives the i-th registration of the context
PathOf(i) == target_path(instances[ctx]._generators[i], model_generators)

\* the file at a path holds one emitted text, generated at the time t
HoldsTextOf(files, path, t) ==
    /\ Len(files[path]) = 1
    /\ files[path][1].file_header.dt = t

\* what a write_all that began Writes writes has done: the folder exists iff
\* it existed or was created; with no folder the first write raises and no
\* file changes; otherwise the i-th registration was written at time
\* clock + i, in the order of the registry, the file of a write that raised
\* being left empty; no other file changes; and the call raises unless
\* every registration has been written
WriteAllEffect(creates, Writes) ==
    /\ disk'.dir = (disk.dir \/ creates)
    /\ Writes <= Len(instances[ctx]._generators)
    /\ outcome'.err = "none" => Writes = Len(instances[ctx]._generators)
    /\ (~disk'.dir /\ instances[ctx]._generators # <<>>)
          => /\ outcome'.err = "FileNotFoundError"
             /\ Writes = 1
             /\ disk'.files = disk.files
    /\ disk'.dir
          => /\ \A i \in 1..Writes : PathOf(i) \in DOMAIN disk'.files
             /\ \A i \in 1..Writes :
                   (\A j \in (i + 1)..Writes : PathOf(j) # PathOf(i))
                      => IF outcome'.err # "none" /\ i = Writes
                         THEN disk'.files[PathOf(i)] = <<>>
                         ELSE HoldsTextOf(disk'.files, PathOf(i), clock + i)
             /\ \A path \in DOMAIN disk.files :
                   (\A i \in 1..Writes : PathOf(i) # path)
                      => /\ path \in DOMAIN disk'.files
                         /\ disk'.files[path] = disk.files[path]
             /\ \A path \in DOMAIN disk'.files :
                   \/ path \in DOMAIN disk.files
                   \/ \E i \in 1..Writes : PathOf(i) = path

IsGenerateAll == run_pc = "entered" /\ outcome'.op = "generate_all"

\* C15: generate_all returns one text per registration, writes no file and
\* leaves the context and every ModelGenerator as they were before the call
C15_GenerateAllPure == [][IsGenerateAll => (/\ outcome'.err = "none" => Len(outcome'.val) = Len(instances[ctx]._generators)
                                            /\ disk' = disk
                                            /\ instances' = instances
                                            /\ model_generators' = model_generators)]_vars

-----------------------------------------------------------------------------
(* Properties of ModelGenerator.write (specification SpecWrite) *)

\* a step of ModelGenerator.write
IsWrite == run_pc = "none" /\ outcome'.op = "write"

\* the text generate() of the g-th ModelGenerator assembles at the time t,
\* before any validator or formatter has seen it
EmittedText(g, t) ==
    generate(model_generators[g].gen, model_generators[g]._literal_model_blueprints,
             <<>>, <<>>, t).result

\* the positions of the validators of a list that reject a text
Rejecting(code_validators, text) ==
    {i \in 1..Len(code_validators) :
        ~CodeValidator_validate(code_validators[i], text).is_valid}

\* what write raises when the validators at the positions rejecting reject:
\* the error of the first of them, or ValueError when it gave none
RejectionError(code_validators, text, rejecting) ==
    LET first == CHOOSE i \in rejecting : \A j \in rejecting : i <= j
        error == CodeValidator_validate(code_validators[first], text).error
    IN  IF error # "None" THEN error ELSE "ValueError"

\* the effect of a write(output_path, code_validators, ...) whose emitted
\* text a validator rejects: the call raises the error of the validator, or
\* ValueError, and the file at output_path holds no text
RejectedWrite(g, output_path, code_validators, emitted) ==
    (disk.dir /\ emitted.err = "none" /\ Rejecting(code_validators, emitted.val) # {})
       => /\ outcome'.err = RejectionError(code_validators, emitted.val,
                                           Rejecting(code_validators, emitted.val))
          /\ output_path \in DOMAIN disk'.files
          /\ disk'.files[output_path] = <<>>

\* C16: when a validator rejects the text write has generated, write raises
\* the validator's error, or ValueError when the validator gave none, and
\* none of the text is in the file at output_path
C16_RejectedTextNotWritten == [][IsWrite => RejectedWrite(outcome'.args[1], outcome'.args[2], outcome'.args[3], EmittedText(outcome'.args[1], clock'))]_vars

\* a write over an existing file, with a validator that rejects the text
\* and returns no error, has raised ValueError and left the file empty
C16_Witness ==
    /\ outcome.op = "write"
    /\ outcome.args[2] = <<"o", ".", "p", "y">>
    /\ outcome.args[3] = <<"AstValidator", "CodeValidator">>
    /\ outcome.err = "ValueError"
    /\ clock = 1
    /\ disk.files[<<"o", ".", "p", "y">>] = <<>>

-----------------------------------------------------------------------------
(* Properties of the module modalities (specification SpecModality) *)

\* C22: Modality.from_abbreviation("ophys") is Modality.POPHYS
C22_OphysFromAbbreviation ==
    (md_call.op = "from_abbreviation" /\ md_call.abbreviation = "ophys")
       => md_result = Ok(Modality.val.constants["POPHYS"])

\* C23: a mapping whose abbreviation is "ophys" validates as Modality.POPHYS
\* whatever its name; any other value is validated by the union as it was
\* given; Modality.OPHYS is Modality.POPHYS
C23_OphysCoercion ==
    /\ Modality.val.constants["OPHYS"] = Modality.val.constants["POPHYS"]
    /\ md_call.op = "ONE_OF" =>
          IF /\ md_call.value.kind = "dict"
             /\ "abbreviation" \in DOMAIN md_call.value.fields
             /\ md_call.value.fields["abbreviation"] = "ophys"
          THEN md_result = Ok(Instance(POPHYS_ROW))
          ELSE md_result = validate_union(Modality.val, md_call.value)

\* the mapping of the test, name "foo bar" and abbreviation "ophys", has
\* validated as Modality.POPHYS
C23_Witness ==
    /\ md_call.op = "ONE_OF"
    /\ md_call.value = Mapping([name |-> "foo bar", abbreviation |-> "ophys"])
    /\ md_result = Ok(Instance(POPHYS_ROW))

-----------------------------------------------------------------------------
(* Properties of two generators (specification SpecIndependent) *)

IsRun == outcome'.op \in {"generate", "write"} /\ hint_lists # <<>>

\* the hints generator g holds
HintsOf(g) == hint_lists[model_generators[g]._literal_class_name_hints]

\* what generate() gives for generator g with the hints it was constructed
\* with and the blueprints it holds, under the pipeline and at the time of the
\* step
OwnResult(g, arguments) ==
    generate(Dereferenced(model_generators[g], HintLists).gen,
             model_generators[g]._literal_model_blueprints,
             arguments.code_validators, arguments.code_formatters, clock').result

\* the call of the step has returned, written or raised what OwnResult is
RunGave(result) ==
    /\ outcome'.err = result.err
    /\ outcome'.op = "generate" => outcome'.val = result.val
    /\ (outcome'.op = "write" /\ result.err = "none")
          => disk'.files[outcome'.args[2]] = <<result.val>>

\* C24: generate() or write() on one generator leaves the other generator's
\* records, blueprint list and hint list (the list of the class included) as
\* they were, and gives the text that the generator's own records, blueprints
\* and constructed hints determine, whichever generator ran before
C24_GeneratorsIndependent ==
    [][IsRun =>
         /\ \A other \in 1..Len(model_generators) :
               other # outcome'.args[1] =>
                  /\ model_generators'[other] = model_generators[other]
                  /\ HintsOf(other)' = HintsOf(other)
         /\ hint_lists'[DefaultHints] = DEFAULT_LITERAL_CLASS_NAME_HINTS
         /\ RunGave(OwnResult(outcome'.args[1], outcome'.args[3]))]_vars

\* two generators that share the list of the class have both emitted a text,
\* the second after the first
C24_Witness ==
    /\ hint_lists # <<>>
    /\ model_generators[1]._literal_class_name_hints = DefaultHints
    /\ model_generators[2]._literal_class_name_hints = DefaultHints
    /\ model_generators[1]._literal_model_blueprints # <<>>
    /\ outcome.op = "generate" /\ outcome.args[1] = 2 /\ outcome.err = "none"

-----------------------------------------------------------------------------
(* Properties of TemplateHelper.class_header (specification SpecTemplate) *)

\* C27: class_header with a non-empty list of parents gives the header of
\* class_name with those parents, comma-separated, in the order of the list;
\* with None or an empty list it gives the header without parents
C27_ClassHeaderParents ==
    th_pc = "done" =>
       IF th_args.parent_name.none \/ th_args.parent_name.value = <<>>
       THEN th_result = Ok(_orfan_class_header(th_args.class_name))
       ELSE /\ th_result.val.class_name = th_args.class_name
            /\ th_result.val.parent_name = str_join(<<",", " ">>, th_args.parent_name.value)

-----------------------------------------------------------------------------
(* Termination of generate_literal_model (specification SpecLiteral) *)

\* C28: the call generate() makes for a record ends, by a return or by an
\* exception: helpers.unindent, applied to what a resolver returns, ends on
\* every text
C28_UnindentTerminates ==
    lm_pc = "returned" => lm_result.err # "hang"

-----------------------------------------------------------------------------
(* Forward references and the order of the pipeline (specification Spec) *)

\* the generator has a resolver whose type is a ForwardClassReference
HasForwardReference ==
    /\ ~generator.mappable_references.none
    /\ \E i \in 1..Len(generator.mappable_references.value) :
          generator.mappable_references.value[i].typeof.kind = "forward"

\* C25: with a resolver of a forward-referenced type, a generate() call whose
\* records all emit returns a text (unless a validator rejects it) that holds
\* the import of the referenced class
C25_ForwardReferenceImport ==
    \A i \in 1..Len(generated) :
       (/\ HasForwardReference
        /\ append_blueprints(<<>>, generator.parsed_source, generator).err = "none")
          => /\ generated[i].err \in {"none", "SyntaxError"}
             /\ generated[i].err = "none" =>
                   import_statement("registries", "_Registry")
                      \in generated[i].val.reference_imports

-----------------------------------------------------------------------------
(* The order of validators and formatters (specification SpecWrite) *)

\* the effect of a write whose generate() has assembled the text emitted:
\* the validators judge that text, unformatted, in the order of the list and
\* the first that rejects it ends the call with its error, no formatter
\* having made a text for the file; when none rejects, the file holds the
\* text laid out by the formatters in the order of the list
PipelineInOrder(output_path, code_validators, code_formatters, emitted) ==
    (disk.dir /\ emitted.err = "none") =>
       IF Rejecting(code_validators, emitted.val) # {}
       THEN /\ outcome'.err = RejectionError(code_validators, emitted.val,
                                             Rejecting(code_validators, emitted.val))
            /\ disk'.files[output_path] = <<>>
       ELSE /\ outcome'.err = "none"
            /\ disk'.files[output_path] =
                  <<[emitted.val EXCEPT !.formatted_by = code_formatters]>>

\* C26: in one generate() call the validators run in list order on the
\* unformatted text and the first rejection ends the call; the formatters
\* run only when every validator accepted, in list order, each on the text
\* the one before returned
C26_ValidatorsThenFormatters == [][IsWrite => PipelineInOrder(outcome'.args[2], outcome'.args[3], outcome'.args[4], EmittedText(outcome'.args[1], clock'))]_vars

\* a text the validator accepted has been written as ISortFormatter, then
\* BlackFormatter, laid it out
C26_Witness ==
    /\ outcome.op = "write"
    /\ outcome.err = "none"
    /\ outcome.args[4] = <<"ISortFormatter", "BlackFormatter">>
    /\ disk.files[outcome.args[2]] # <<>>
    /\ disk.files[outcome.args[2]][1].formatted_by = <<"ISortFormatter", "BlackFormatter">>


\* C29: a write that raises leaves the files of the output folder as they
\* were: a file that existed keeps its content, a file that did not exist is
\* not created
C29_FailedWriteKeepsFile ==
    [][(IsWrite /\ outcome'.err # "none") => disk'.files = disk.files]_vars

-----------------------------------------------------------------------------
(* A second GeneratorContext inside the first (specification SpecNested) *)

IsSecondContext == outcome'.op = "second GeneratorContext"

\* C30: constructing a second GeneratorContext while the first is in its
\* scope leaves the generators, validators and formatters of the first as
\* they were
C30_SecondContextKeepsFirst ==
    [][IsSecondContext =>
         /\ instances'[ctx]._generators = instances[ctx]._generators
         /\ instances'[ctx].code_validators = instances[ctx].code_validators
         /\ instances'[ctx].code_formatters = instances[ctx].code_formatters]_vars

=============================================================================
